---- MODULE Spec2Model ----
(***************************************************************************)
(* Model of the UtilityContainers MCP gateways (confluence-mcp and         *)
(* pandoc-mcp servers: rate limiter, authenticator, SSE session table)     *)
(* and of the Mermaid diagram pipeline (DiagramProcessor.processMarkdown). *)
(***************************************************************************)
EXTENDS Integers, Sequences, FiniteSets, TLC

VARIABLES
    server,          \* which server.ts runs: "confluence" or "pandoc"
    MCP_API_KEY,     \* process.env.MCP_API_KEY, read once at module load
    now,             \* Date.now() in ms
    rateLimitStore,  \* Map clientId -> [count, resetTime]
    admittedCount,   \* history: requests passed on by the limiter since the entry was created
    admittedAt,      \* history: per client and instant, the requests the limiter passed on
    transports,      \* Record sessionId -> SSEServerTransport (named by its own session id)
    streams,         \* transports whose SSE response stream is open
    closed,          \* transports whose stream has been closed
    pending,         \* per transport: bag of JSON-RPC request ids accepted and not yet answered
    events,          \* per transport: bag of ids of the SSE message events written to its stream
    accepted,        \* history: per sessionId parameter, bag of the request ids answered 202
    last,            \* the last HTTP request as far as it was read, and its response
    nreq,            \* number of HTTP requests served so far
    markdownContent, \* processMarkdown: argument
    markdownPath,    \* processMarkdown: argument
    pc,              \* processMarkdown: "idle", "await" (in convertMermaidToPng) or "done"
    i,               \* processMarkdown: loop index
    matches,         \* processMarkdown: Array.from(matchAll(mermaidRegex))
    diagrams,        \* processMarkdown: ProcessedDiagram[]
    inflight,        \* converter requests issued and not yet settled (block indices)
    requests,        \* history: block indices in the order their converter request was issued
    outcomes,        \* history: outcome of each settled converter request, in order
    result,          \* processMarkdown: the resolved ProcessedMarkdown, or None
    projectSpaceKey, \* ProjectConfigManager.getConfig()?.spaceKey (None without a project config)
    envSpaceKey,     \* process.env.CONFLUENCE_SPACE_KEY
    confluenceConfig, \* config.ts: baseUrl, username and apiToken every ConfluenceClient uses
    remote,          \* the Confluence instance: page id -> version (0 never created, -1 deleted)
    cache,           \* MarkdownPageCache: key -> PageMapping
    calls,           \* the tool calls in flight (handlers suspended at an await)
    ncalls,          \* number of tool calls dispatched so far
    done,            \* the tool call that returned last, with its result
    convertFileCall, \* PandocService.convertFile: its arguments as resolved
    convertFilePc,   \* PandocService.convertFile: the await it is suspended at
    effects,         \* history: what convertFile did to the file system and to processes
    conversion,      \* PandocService.convertFile: the resolved ConversionResult
    conversions,     \* diagram converter: each POST /convert/mermaid2png and how far it got
    tmp              \* diagram converter: the files in /tmp, path -> content

gatewayVars == <<server, MCP_API_KEY, now, rateLimitStore, admittedCount, admittedAt,
                 transports, streams, closed, pending, events, accepted, last, nreq>>
pipelineVars == <<markdownContent, markdownPath, pc, i, matches, diagrams, inflight,
                  requests, outcomes, result>>
publishVars == <<projectSpaceKey, envSpaceKey, confluenceConfig, remote, cache, calls,
                 ncalls, done>>
fileVars == <<convertFileCall, convertFilePc, effects, conversion>>
diagramVars == <<conversions, tmp>>
vars == <<gatewayVars, pipelineVars, publishVars, fileVars, diagramVars>>

\* ------------------------------------------------------------------ values
\* JavaScript undefined (an absent header, query parameter or env variable)
None == "<undefined>"

\* JavaScript truthiness of a string-or-undefined value
Truthy(x) == x # None /\ x # ""

\* JavaScript a || b
Or(a, b) == IF Truthy(a) THEN a ELSE b

\* Math.ceil(a / b) for b > 0
Ceil(a, b) == -((-a) \div b)

\* ------------------------------------------------------------------ bounds
\* at most this many HTTP requests in one run
MaxRequests == 4
\* at most this many tokens in a Markdown document
MaxDocLen == 6

\* ------------------------------------------------------------------ program constants
RATE_LIMIT_WINDOW == 15 * 60 * 1000
RATE_LIMIT_MAX_REQUESTS == 100

\* ------------------------------------------------------------------ inputs
Servers == {"confluence", "pandoc"}
\* values of process.env.MCP_API_KEY
Secrets == {None, "", "k1"}
\* values of the x-mcp-api-key header and of the apiKey query parameter
Credentials == {[hdr |-> None, qry |-> None], [hdr |-> "", qry |-> None],
                [hdr |-> "k1", qry |-> None],
                [hdr |-> "", qry |-> "k1"], [hdr |-> "k2", qry |-> "k1"]}
\* req.ip (undefined when the socket is already gone)
Ips == {"10.0.0.1", None}
\* req.ip of the clients that use the MCP endpoints
McpIps == {"10.0.0.1"}
ClientIds == {"10.0.0.1", "unknown"}
\* instants at which Date.now() is read
TimePoints == {0, 1, RATE_LIMIT_WINDOW, RATE_LIMIT_WINDOW + 1}
\* session ids produced by the random source
SessionIds == {"s1", "s2"}
\* property names every plain object inherits from Object.prototype
ProtoKeys == {"constructor"}
\* values of the sessionId query parameter of a POST
SessionParams == SessionIds \cup ProtoKeys \cup {None}
Routes == {"GET /health", "GET /mcp", "POST /messages"}
AuthRoutes == {"GET /mcp", "POST /messages"}
RpcIds == {1, 2}
\* JSON bodies of a POST: a JSON-RPC request, or not a JSON-RPC message
Bodies == [kind : {"request"}, id : RpcIds] \cup {[kind |-> "invalid", id |-> 0]}
NoBody == [kind |-> "unread", id |-> 0]
Unread == "<unread>"

EmptyBag == [r \in RpcIds |-> 0]

\* ------------------------------------------------------------------ rate limiter
\* variant: the clean-up loop also deletes an entry at the very instant of its resetTime
CleanExpiredAtReset(store, t) ==
    [k \in {c \in DOMAIN store : ~(t >= store[c].resetTime)} |-> store[k]]

\* the "clean up expired entries" loop
CleanExpired(store, t) ==
    [k \in {c \in DOMAIN store : ~(t > store[c].resetTime)} |-> store[k]]

FreshEntry(t) == [count |-> 1, resetTime |-> t + RATE_LIMIT_WINDOW]

\* variant: the ceiling test is off by one
AtCeilingStrict(entry) == entry.count > RATE_LIMIT_MAX_REQUESTS

\* variant: the ceiling is applied at twice its value
AtCeilingDoubled(entry) == entry.count >= 2 * RATE_LIMIT_MAX_REQUESTS

\* the ceiling test of the limiter
AtCeiling(entry) == entry.count >= RATE_LIMIT_MAX_REQUESTS

\* variant: the hint is left in milliseconds
RetryAfterMillis(entry, t) == entry.resetTime - t

\* the retry-after hint of a 429
RetryAfter(entry, t) == Ceil(entry.resetTime - t, 1000)

\* variant: a sliding window, every admitted request moves the entry's resetTime
rateLimitMiddlewareSliding(store, clientId, t) ==
    LET cleaned == CleanExpired(store, t) IN
    IF clientId \notin DOMAIN cleaned
    THEN [store |-> cleaned @@ (clientId :> FreshEntry(t)), next |-> TRUE,
          created |-> TRUE, retryAfter |-> 0]
    ELSE IF t > cleaned[clientId].resetTime
    THEN [store |-> [cleaned EXCEPT ![clientId] = FreshEntry(t)], next |-> TRUE,
          created |-> TRUE, retryAfter |-> 0]
    ELSE IF AtCeiling(cleaned[clientId])
    THEN [store |-> cleaned, next |-> FALSE, created |-> FALSE,
          retryAfter |-> RetryAfter(cleaned[clientId], t)]
    ELSE [store |-> [cleaned EXCEPT ![clientId] =
                        [count |-> @.count + 1, resetTime |-> t + RATE_LIMIT_WINDOW]],
          next |-> TRUE, created |-> FALSE, retryAfter |-> 0]

\* rateLimitMiddleware: the new store, whether next() is called, and the hint of a 429
rateLimitMiddleware(store, clientId, t) ==
    LET cleaned == CleanExpired(store, t) IN
    IF clientId \notin DOMAIN cleaned
    THEN [store |-> cleaned @@ (clientId :> FreshEntry(t)), next |-> TRUE,
          created |-> TRUE, retryAfter |-> 0]
    ELSE IF t > cleaned[clientId].resetTime
    THEN [store |-> [cleaned EXCEPT ![clientId] = FreshEntry(t)], next |-> TRUE,
          created |-> TRUE, retryAfter |-> 0]
    ELSE IF AtCeiling(cleaned[clientId])
    THEN [store |-> cleaned, next |-> FALSE, created |-> FALSE,
          retryAfter |-> RetryAfter(cleaned[clientId], t)]
    ELSE [store |-> [cleaned EXCEPT ![clientId].count = @ + 1], next |-> TRUE,
          created |-> FALSE, retryAfter |-> 0]

\* ------------------------------------------------------------------ authenticator
ConfigurationError == "Server configuration error"
Unauthorized == "Unauthorized: Invalid or missing API key"

\* variant: only the comparison, without the tests for an unset secret or credential
authenticateRequestCompareOnly(hdr, qry) ==
    LET apiKey == Or(hdr, qry) IN
    IF apiKey # MCP_API_KEY THEN [status |-> 401, error |-> Unauthorized]
    ELSE [status |-> 0, error |-> ""]

\* variant: an unset secret switches authentication off
authenticateRequestOptional(hdr, qry) ==
    LET apiKey == Or(hdr, qry) IN
    IF ~Truthy(MCP_API_KEY) THEN [status |-> 0, error |-> ""]
    ELSE IF ~Truthy(apiKey) \/ apiKey # MCP_API_KEY
    THEN [status |-> 401, error |-> Unauthorized]
    ELSE [status |-> 0, error |-> ""]

\* authenticateRequest: status 0 when next() is called, else the error response
authenticateRequest(hdr, qry) ==
    LET apiKey == Or(hdr, qry) IN
    IF ~Truthy(MCP_API_KEY) THEN [status |-> 500, error |-> ConfigurationError]
    ELSE IF ~Truthy(apiKey) \/ apiKey # MCP_API_KEY
    THEN [status |-> 401, error |-> Unauthorized]
    ELSE [status |-> 0, error |-> ""]

\* ------------------------------------------------------------------ session table
\* variant: the lookup ignores the key and gives some stored transport
LookupAny(table, key) ==
    IF DOMAIN table # {} THEN table[CHOOSE k \in DOMAIN table : TRUE] ELSE None

\* transports[sessionId] on a plain object: own property, inherited property, or undefined
Lookup(table, key) ==
    IF key \in DOMAIN table THEN table[key]
    ELSE IF key \in ProtoKeys THEN "<Object.prototype." \o key \o ">"
    ELSE None

IsTransport(x) == x \in SessionIds

\* variant: the handler only logs and leaves the entry in the table
oncloseKeep(table, sessionId) == table

\* delete transports[sessionId]
onclose(table, sessionId) == [k \in DOMAIN table \ {sessionId} |-> table[k]]

\* variant: closing a stream drops the tool calls of its session
CallsCancelledOnClose(cs, sessionId) == {c \in cs : c.session # sessionId}

\* what the onclose handler does to the tool calls in flight: nothing, it only deletes the
\* table entry
CallsAfterClose(cs, sessionId) == cs

BagAdd(b, r) == [b EXCEPT ![r] = @ + 1]
BagRemove(b, r) == [b EXCEPT ![r] = @ - 1]

\* ------------------------------------------------------------------ HTTP requests
EmptyMap == [k \in {} |-> None]

\* the request as far as the middleware chain read it, the response it got, and the
\* Date.now() the limiter read for it
Response(route, clientId, hdr, qry, sid, body, status, text, retryAfter, session) ==
    [route |-> route, clientId |-> clientId, hdr |-> hdr, qry |-> qry, sid |-> sid,
     body |-> body, status |-> status, text |-> text, retryAfter |-> retryAfter,
     session |-> session, time |-> now]

NoRequest == Response(None, None, Unread, Unread, Unread, NoBody, 0, "", 0, None)

\* app.use(rateLimitMiddleware): runs first on every route.  Gives the limiter's verdict
\* and updates the store; a rejected request is answered 429 here.
RateLimited(ip, route) ==
    LET clientId == Or(ip, "unknown")
        rl == rateLimitMiddleware(rateLimitStore, clientId, now)
    IN  /\ nreq < MaxRequests
        /\ nreq' = nreq + 1
        /\ rateLimitStore' = rl.store
        /\ admittedCount' =
              [c \in DOMAIN rl.store |->
                 IF c = clientId /\ rl.next
                 THEN (IF rl.created THEN 1 ELSE admittedCount[c] + 1)
                 ELSE admittedCount[c]]
        /\ admittedAt' = IF rl.next THEN [admittedAt EXCEPT ![clientId][now] = @ + 1]
                                    ELSE admittedAt
        /\ ~rl.next =>
              /\ last' = Response(route, clientId, Unread, Unread, Unread, NoBody, 429,
                                  "Rate limit exceeded", rl.retryAfter, None)
              /\ UNCHANGED <<transports, streams, closed, pending, events, accepted>>

Admitted(ip) == rateLimitMiddleware(rateLimitStore, Or(ip, "unknown"), now).next

\* variant: the health route behind the authenticator
HealthRequestAuthenticated(ip) ==
    /\ RateLimited(ip, "GET /health")
    /\ Admitted(ip) =>
          LET auth == authenticateRequest(None, None) IN
          /\ last' = Response("GET /health", Or(ip, "unknown"), None, None, Unread,
                              NoBody, auth.status, auth.error, 0, None)
          /\ UNCHANGED <<transports, streams, closed, pending, events, accepted>>
    /\ UNCHANGED <<server, MCP_API_KEY, now, pipelineVars, publishVars, fileVars, diagramVars>>

\* app.get('/health')
HealthRequest(ip) ==
    /\ RateLimited(ip, "GET /health")
    /\ Admitted(ip) =>
          /\ last' = Response("GET /health", Or(ip, "unknown"), Unread, Unread, Unread,
                              NoBody, 200, "ok", 0, None)
          /\ UNCHANGED <<transports, streams, closed, pending, events, accepted>>
    /\ UNCHANGED <<server, MCP_API_KEY, now, pipelineVars, publishVars, fileVars, diagramVars>>

\* the handler of app.get('/mcp'): what it stores and answers
\* confluence: the transport is stored under its own session id, onclose is set and the
\* server is connected (start() writes the SSE head and the endpoint event); when
\* getServer() or server.connect() throws instead, the catch answers 500.
\* pandoc: the assignment to transport.sessionId, a getter-only ("read-only") property,
\* throws in module (strict) code before anything is stored; the catch answers 500.
EstablishStream(clientId, hdr, qry) ==
    IF server = "confluence"
    THEN \E sessionId \in SessionIds \ (streams \cup closed \cup DOMAIN transports),
            connected \in BOOLEAN :
           /\ transports' = transports @@ (sessionId :> sessionId)
           /\ IF connected
              THEN /\ streams' = streams \cup {sessionId}
                   /\ last' = Response("GET /mcp", clientId, hdr, qry, Unread, NoBody, 200,
                                       "event: endpoint", 0, sessionId)
              ELSE /\ streams' = streams
                   /\ last' = Response("GET /mcp", clientId, hdr, qry, Unread, NoBody, 500,
                                       "Error establishing SSE stream", 0, None)
           /\ UNCHANGED <<closed, pending, events, accepted>>
    ELSE /\ last' = Response("GET /mcp", clientId, hdr, qry, Unread, NoBody, 500,
                             "Failed to establish SSE connection", 0, None)
         /\ UNCHANGED <<transports, streams, closed, pending, events, accepted>>

\* variant: the authenticator runs before the limiter, which does not see a request the
\* authenticator refuses
McpRequestAuthFirst(ip, hdr, qry) ==
    LET auth == authenticateRequest(hdr, qry) IN
    /\ IF auth.status # 0
       THEN /\ nreq < MaxRequests
            /\ nreq' = nreq + 1
            /\ last' = Response("GET /mcp", Or(ip, "unknown"), hdr, qry, Unread, NoBody,
                                auth.status, auth.error, 0, None)
            /\ UNCHANGED <<rateLimitStore, admittedCount, admittedAt, transports, streams,
                           closed, pending, events, accepted>>
       ELSE /\ RateLimited(ip, "GET /mcp")
            /\ Admitted(ip) => EstablishStream(Or(ip, "unknown"), hdr, qry)
    /\ UNCHANGED <<server, MCP_API_KEY, now, pipelineVars, publishVars, fileVars, diagramVars>>

\* app.get('/mcp', authenticateRequest, ...)
McpRequest(ip, hdr, qry) ==
    /\ RateLimited(ip, "GET /mcp")
    /\ Admitted(ip) =>
          LET auth == authenticateRequest(hdr, qry) IN
          IF auth.status # 0
          THEN /\ last' = Response("GET /mcp", Or(ip, "unknown"), hdr, qry, Unread, NoBody,
                                   auth.status, auth.error, 0, None)
               /\ UNCHANGED <<transports, streams, closed, pending, events, accepted>>
          ELSE EstablishStream(Or(ip, "unknown"), hdr, qry)
    /\ UNCHANGED <<server, MCP_API_KEY, now, pipelineVars, publishVars, fileVars, diagramVars>>

\* SSEServerTransport.handlePostMessage as the handlers use it: status and text of the
\* answer and whether the message is handed to the session's protocol handler
handlePostMessage(transport, body) ==
    IF ~IsTransport(transport)
    THEN [status |-> 500, text |-> "Error handling request", handled |-> FALSE]
    ELSE IF transport \notin streams
    THEN [status |-> 500, text |-> "SSE connection not established", handled |-> FALSE]
    ELSE IF server = "pandoc"
    THEN [status |-> 400, text |-> "stream is not readable", handled |-> FALSE]
    ELSE IF body.kind = "invalid"
    THEN [status |-> 400, text |-> "Invalid message", handled |-> FALSE]
    ELSE [status |-> 202, text |-> "Accepted", handled |-> TRUE]

\* the early returns of the handler of app.post('/messages'): status and text of the
\* answer, or status 0 when the handler goes on to transport.handlePostMessage
SessionCheck(sid) ==
    IF server = "confluence"
    THEN IF ~Truthy(sid) THEN [status |-> 400, text |-> "Missing sessionId parameter"]
         ELSE IF ~Truthy(Lookup(transports, sid))
         THEN [status |-> 404, text |-> "Session not found"]
         ELSE [status |-> 0, text |-> ""]
    ELSE IF ~Truthy(sid) \/ ~Truthy(Lookup(transports, sid))
         THEN [status |-> 400, text |-> "Invalid or missing sessionId"]
         ELSE [status |-> 0, text |-> ""]

\* the handler of app.post('/messages')
RouteMessage(clientId, hdr, qry, sid, body) ==
    LET check == SessionCheck(sid)
        transport == Lookup(transports, sid)
        hpm == handlePostMessage(transport, body)
    IN  IF check.status # 0
        THEN /\ last' = Response("POST /messages", clientId, hdr, qry, sid, body,
                                 check.status, check.text, 0, None)
             /\ UNCHANGED <<transports, streams, closed, pending, events, accepted>>
        ELSE /\ last' = Response("POST /messages", clientId, hdr, qry, sid, body,
                                 hpm.status, hpm.text, 0,
                                 IF hpm.handled THEN transport ELSE None)
             /\ pending' = IF hpm.handled /\ body.kind = "request"
                             THEN [pending EXCEPT ![transport] = BagAdd(@, body.id)]
                             ELSE pending
             /\ accepted' = IF hpm.status = 202 /\ body.kind = "request"
                              THEN [accepted EXCEPT ![sid] = BagAdd(@, body.id)]
                              ELSE accepted
             /\ UNCHANGED <<transports, streams, closed, events>>

\* app.post('/messages', authenticateRequest, ...)
MessagesRequest(ip, hdr, qry, sid, body) ==
    /\ RateLimited(ip, "POST /messages")
    /\ Admitted(ip) =>
          LET auth == authenticateRequest(hdr, qry) IN
          IF auth.status # 0
          THEN /\ last' = Response("POST /messages", Or(ip, "unknown"), hdr, qry, Unread,
                                   NoBody, auth.status, auth.error, 0, None)
               /\ UNCHANGED <<transports, streams, closed, pending, events, accepted>>
          ELSE RouteMessage(Or(ip, "unknown"), hdr, qry, sid, body)
    /\ UNCHANGED <<server, MCP_API_KEY, now, pipelineVars, publishVars, fileVars, diagramVars>>

\* the protocol handler of a session answers one accepted request: the response is
\* written to the session's own stream as an SSE message event, or dropped when the
\* stream is gone
SendResponse(transport, id) ==
    /\ pending[transport][id] > 0
    /\ pending' = [pending EXCEPT ![transport] = BagRemove(@, id)]
    /\ events' = IF transport \in streams
                    THEN [events EXCEPT ![transport] = BagAdd(@, id)]
                    ELSE events
    /\ UNCHANGED <<server, MCP_API_KEY, now, rateLimitStore, admittedCount, admittedAt,
                   transports, streams, closed, accepted, last, nreq, pipelineVars,
                   publishVars, fileVars, diagramVars>>

\* the SSE stream of a session closes (client disconnect, close(), transport error):
\* the transport calls its onclose handler
CloseStream(sessionId) ==
    /\ sessionId \in streams
    /\ streams' = streams \ {sessionId}
    /\ closed' = closed \cup {sessionId}
    /\ transports' = onclose(transports, sessionId)
    /\ calls' = CallsAfterClose(calls, sessionId)
    /\ UNCHANGED <<server, MCP_API_KEY, now, rateLimitStore, admittedCount, admittedAt,
                   pending, events, accepted, last, nreq, pipelineVars, projectSpaceKey,
                   envSpaceKey, confluenceConfig, remote, cache, ncalls, done, fileVars, diagramVars>>

\* time passes
Tick(t) ==
    /\ t > now
    /\ now' = t
    /\ UNCHANGED <<server, MCP_API_KEY, rateLimitStore, admittedCount, admittedAt, transports, streams,
                   closed, pending, events, accepted, last, nreq, pipelineVars, publishVars, fileVars, diagramVars>>

Health == \E ip \in Ips : HealthRequest(ip)
Connect == \E ip \in McpIps, cred \in Credentials : McpRequest(ip, cred.hdr, cred.qry)
Post == \E ip \in McpIps, cred \in Credentials, sid \in SessionParams, body \in Bodies :
           MessagesRequest(ip, cred.hdr, cred.qry, sid, body)
Deliver == \E transport \in SessionIds, id \in RpcIds : SendResponse(transport, id)
Disconnect == \E sessionId \in SessionIds : CloseStream(sessionId)
Clock == \E t \in TimePoints : Tick(t)

\* the history of a table whose requests were all served at time 0
AllAtOnce(store) ==
    [c \in ClientIds |->
       [t \in TimePoints |-> IF t = 0 /\ c \in DOMAIN store THEN store[c].count ELSE 0]]

\* a rate-limit table the server can be in at time 0: empty (just started), or one client
\* one request below the ceiling after a burst of requests in the first millisecond
NearCeiling == [count |-> RATE_LIMIT_MAX_REQUESTS - 1, resetTime |-> RATE_LIMIT_WINDOW]
InitialStores == {EmptyMap, ("10.0.0.1" :> NearCeiling)}

\* ids of the pages of the Confluence instance
PageIds == {"100", "200"}
\* a page id that was never created
NoPage == [version |-> 0, spaceKey |-> None, attachments |-> 0, refs |-> 0]
\* the instance as the server finds it: page 100 exists at version 1 in space DOCS
InitialPages == [p \in PageIds |->
                   IF p = "100" THEN [version |-> 1, spaceKey |-> "DOCS", attachments |-> 0,
                                      refs |-> 0]
                   ELSE NoPage]
\* values of the spaceKey of the project configuration (None without a project
\* configuration) and of CONFLUENCE_SPACE_KEY
SpaceKeyConfigs == {[project |-> None, env |-> None], [project |-> None, env |-> "ENV"],
                    [project |-> "PROJ", env |-> "ENV"]}

\* CONFLUENCE_BASE_URL, CONFLUENCE_USERNAME and CONFLUENCE_API_TOKEN of the environment
\* the server was started in, as loadConfig() read them
EnvCredentials == [baseUrl |-> "https://env.example", username |-> "env", apiToken |-> "t0"]
\* the confluenceUrl, username and apiToken arguments of confluence_setup_project
SetupArguments == [baseUrl |-> "https://team.example", username |-> "team",
                   apiToken |-> "t1"]

NoCall == [tool |-> None, session |-> None, spaceKeyArg |-> None,
           spaceKey |-> None, markdownPath |-> None, pageId |-> None, version |-> 0,
           artifacts |-> 0, stage |-> "return", uploaded |-> 0]
NoResult == [isError |-> FALSE, text |-> "", thrown |-> FALSE]

\* no tool call was ever made
PublishIdle ==
    /\ confluenceConfig = EnvCredentials
    /\ remote = InitialPages
    /\ cache = <<>>
    /\ calls = {}
    /\ ncalls = 0
    /\ done = [call |-> NoCall, result |-> NoResult, delivered |-> FALSE]

\* ---- diagram converter
\* the POST /convert/mermaid2png requests a client has in flight at once
MermaidRequests == {"r1", "r2"}
\* req.body: Mermaid code, or nothing
MermaidCodes == {"", "graph A", "graph B"}

\* what mmdc renders from a Mermaid source
Png(mermaidContent) == <<"PNG", mermaidContent>>

NoConversion == [pc |-> "idle", mermaidCode |-> "", inputPath |-> None, outputPath |-> None,
                 exitCode |-> 0, pngBuffer |-> None, failed |-> FALSE, status |-> 0]

\* no request was received, /tmp holds no diagram file
DiagramIdle ==
    /\ conversions = [r \in MermaidRequests |-> NoConversion]
    /\ tmp = EmptyMap

\* no file conversion was ever started
ConvertFileIdle ==
    /\ convertFileCall = [inputPath |-> <<>>, outputPath |-> <<>>, template |-> <<>>]
    /\ convertFilePc = "idle"
    /\ effects = {}
    /\ conversion = [success |-> FALSE, error |-> ""]

PipelineIdle ==
    /\ markdownContent = <<>>
    /\ markdownPath = None
    /\ pc = "idle"
    /\ i = 0
    /\ matches = <<>>
    /\ diagrams = <<>>
    /\ inflight = {}
    /\ requests = <<>>
    /\ outcomes = <<>>
    /\ result = None

Init ==
    /\ server \in Servers
    /\ MCP_API_KEY \in Secrets
    /\ now = 0
    /\ rateLimitStore \in InitialStores
    /\ admittedCount = [c \in DOMAIN rateLimitStore |-> rateLimitStore[c].count]
    /\ admittedAt = AllAtOnce(rateLimitStore)
    /\ transports = EmptyMap
    /\ streams = {}
    /\ closed = {}
    /\ pending = [s \in SessionIds |-> EmptyBag]
    /\ events = [s \in SessionIds |-> EmptyBag]
    /\ accepted = [s \in SessionIds |-> EmptyBag]
    /\ last = NoRequest
    /\ nreq = 0
    /\ PipelineIdle
    /\ projectSpaceKey = None
    /\ envSpaceKey = None
    /\ PublishIdle
    /\ ConvertFileIdle
    /\ DiagramIdle

\* the gateway at one instant: every route, sessions opening and closing, responses
Next == Health \/ Connect \/ Post \/ Deliver \/ Disconnect

Spec == Init /\ [][Next]_vars

\* the rate limiter over time: requests of two clients and the clock
NextRate == Health \/ Clock

SpecRate == Init /\ [][NextRate]_vars

\* the limiter at three instants of one client's heaviest traffic: the table and the history
\* after the first request of the server (time 0), at the end of the window that request
\* opened with 98 more requests just served, and one millisecond after that window with 98
\* requests served in the new one
Snapshots ==
    LET unit(t) == [u \in TimePoints |-> IF u = t THEN 1 ELSE 0]
        plus(f, g) == [u \in TimePoints |-> f[u] + g[u]]
        times(k, f) == [u \in TimePoints |-> k * f[u]]
        none == [u \in TimePoints |-> 0]
        history(h) == [c \in ClientIds |-> IF c = "10.0.0.1" THEN h ELSE none]
        late == RATE_LIMIT_MAX_REQUESTS - 2
    IN  { [now |-> 0,
           store |-> ("10.0.0.1" :> FreshEntry(0)),
           admittedAt |-> history(unit(0))],
          [now |-> RATE_LIMIT_WINDOW,
           store |-> ("10.0.0.1" :> [count |-> 1 + late, resetTime |-> RATE_LIMIT_WINDOW]),
           admittedAt |-> history(plus(unit(0), times(late, unit(RATE_LIMIT_WINDOW))))],
          [now |-> RATE_LIMIT_WINDOW + 1,
           store |-> ("10.0.0.1" :> [count |-> late,
                                     resetTime |-> 2 * RATE_LIMIT_WINDOW + 1]),
           admittedAt |-> history(plus(unit(0),
                             plus(times(late + 1, unit(RATE_LIMIT_WINDOW)),
                                  times(late, unit(RATE_LIMIT_WINDOW + 1)))))] }

InitBurst ==
    /\ server \in Servers
    /\ MCP_API_KEY \in Secrets
    /\ \E s \in Snapshots :
          /\ now = s.now
          /\ rateLimitStore = s.store
          /\ admittedAt = s.admittedAt
    /\ admittedCount = [c \in DOMAIN rateLimitStore |-> rateLimitStore[c].count]
    /\ transports = EmptyMap
    /\ streams = {}
    /\ closed = {}
    /\ pending = [s \in SessionIds |-> EmptyBag]
    /\ events = [s \in SessionIds |-> EmptyBag]
    /\ accepted = [s \in SessionIds |-> EmptyBag]
    /\ last = NoRequest
    /\ nreq = 0
    /\ PipelineIdle
    /\ projectSpaceKey = None
    /\ envSpaceKey = None
    /\ PublishIdle
    /\ ConvertFileIdle
    /\ DiagramIdle

\* the rate limiter across the boundary of two windows
SpecBurst == InitBurst /\ [][NextRate]_vars

\* the gateway with every accepted request eventually answered by its protocol handler
SpecLive ==
    Spec /\ \A transport \in SessionIds, id \in RpcIds : WF_vars(SendResponse(transport, id))

\* ------------------------------------------------------------------ diagram pipeline
\* A Markdown document is a sequence of tokens: the opening fence of a Mermaid block,
\* a closing fence, a piece of text, or white space.  In the token strings ' stands for
\* the backquote of the fence.
FenceOpen == "'''mermaid\n"
FenceClose == "\n'''"
Tokens == {FenceOpen, FenceClose, "x", " "}
Docs == UNION {[1..n -> Tokens] : n \in 0..MaxDocLen}
\* values of the markdownPath argument
Paths == {None, "docs/guide.md"}
\* what one call of the diagram-converter service can give: a PNG, a 2xx answer with an
\* empty body, or an error (timeout, non-2xx status, service unreachable)
ConverterOutcomes == {"png", "empty", "error"}

Min(S) == CHOOSE x \in S : \A y \in S : x <= y

\* variant: an opening fence without a closing fence is a block up to the end of the text
RECURSIVE matchAllUnclosed(_, _)
matchAllUnclosed(s, from) ==
    LET opens == {p \in from..Len(s) : s[p] = FenceOpen} IN
    IF opens = {} THEN <<>>
    ELSE LET start == Min(opens)
             closes == {q \in (start + 1)..Len(s) : s[q] = FenceClose}
         IN  IF closes = {} THEN <<[start |-> start, end |-> Len(s) + 1]>>
             ELSE <<[start |-> start, end |-> Min(closes)]>>
                    \o matchAllUnclosed(s, Min(closes) + 1)

\* markdownContent.matchAll(mermaidRegex) from token position from on:
\* the matches in document order, each from its opening fence to the nearest closing fence
RECURSIVE matchAll(_, _)
matchAll(s, from) ==
    LET opens == {p \in from..Len(s) : s[p] = FenceOpen} IN
    IF opens = {} THEN <<>>
    ELSE LET start == Min(opens)
             closes == {q \in (start + 1)..Len(s) : s[q] = FenceClose}
         IN  IF closes = {} THEN <<>>
             ELSE <<[start |-> start, end |-> Min(closes)]>> \o matchAll(s, Min(closes) + 1)

\* String.prototype.trim on a token sequence
RECURSIVE trim(_)
trim(s) ==
    IF s = <<>> THEN s
    ELSE IF Head(s) = " " THEN trim(Tail(s))
    ELSE IF s[Len(s)] = " " THEN trim(SubSeq(s, 1, Len(s) - 1))
    ELSE s

\* match[1].trim(): the source of a block
mermaidCode(s, m) == trim(SubSeq(s, m.start + 1, m.end - 1))

\* path.basename(markdownPath, path.extname(markdownPath)), or 'diagram'
baseName(path) ==
    IF ~Truthy(path) THEN "diagram"
    ELSE CASE path = "docs/guide.md" -> "guide"

\* variant: artifacts are numbered by the count of images produced so far
filenameByArtifactCount(path, index) ==
    baseName(path) \o "-diagram-"
        \o ToString(Len(SelectSeq(diagrams, LAMBDA d : d.buffer # "")) + 1) \o ".png"

\* variant: artifacts are named after the source of their block (its length)
filenameBySource(path, index) ==
    baseName(path) \o "-diagram-"
        \o ToString(Len(mermaidCode(markdownContent, matches[index + 1])) + 1) \o ".png"

\* the template string baseName-diagram-(i + 1).png
filename(path, index) == baseName(path) \o "-diagram-" \o ToString(index + 1) \o ".png"

\* the ProcessedDiagram pushed for block index: the PNG, or the empty placeholder buffer
\* of the catch branch
ProcessedDiagram(s, path, m, index, outcome) ==
    [filename |-> filename(path, index),
     buffer |-> IF outcome = "error" THEN "" ELSE IF outcome = "empty" THEN "" ELSE "PNG",
     originalCode |-> mermaidCode(s, m),
     index |-> index]

\* the Markdown image reference ![Diagram (index + 1)](filename)
ImageRef(diagram) ==
    "![Diagram " \o ToString(diagram.index + 1) \o "](" \o diagram.filename \o ")"

\* variant: a failed block is written back from its trimmed source
ReplacementFromCode(s, m, diagram) ==
    IF diagram.buffer = "" THEN <<FenceOpen>> \o diagram.originalCode \o <<FenceClose>>
    ELSE <<ImageRef(diagram)>>

\* variant: every block is replaced by its image reference, converted or not
ReplacementAlways(s, m, diagram) == <<ImageRef(diagram)>>

\* what the replace callback returns for a match
Replacement(s, m, diagram) ==
    IF diagram.buffer = "" THEN SubSeq(s, m.start, m.end) ELSE <<ImageRef(diagram)>>

\* processedMarkdown.replace(mermaidRegex, callback): ms are the matches from token
\* position pos on, k the value of diagramIndex
RECURSIVE replace(_, _, _, _, _)
replace(s, ms, ds, k, pos) ==
    IF ms = <<>> THEN SubSeq(s, pos, Len(s))
    ELSE SubSeq(s, pos, Head(ms).start - 1)
           \o Replacement(s, Head(ms), ds[k + 1])
           \o replace(s, Tail(ms), ds, k + 1, Head(ms).end + 1)

\* diagrams.filter(d => d.buffer.length > 0)
Converted(ds) == SelectSeq(ds, LAMBDA d : d.buffer # "")

\* variant: all conversions are started together (Promise.all over the matches)
NextRequestsAllAtOnce(k, n) == IF k = 0 THEN 0..(n - 1) ELSE {}

\* the blocks whose converter request is issued when the for loop reaches index k of n
NextRequests(k, n) == IF k < n THEN {k} ELSE {}

RECURSIVE Ascending(_)
Ascending(S) == IF S = {} THEN <<>> ELSE <<Min(S)>> \o Ascending(S \ {Min(S)})

\* processMarkdown is called: extraction, then either the early return or the first
\* converter request
Call ==
    /\ pc = "idle"
    /\ result = None
    /\ matches' = matchAll(markdownContent, 1)
    /\ IF Len(matches') = 0
       THEN /\ result' = [markdown |-> markdownContent, diagrams |-> <<>>]
            /\ pc' = "done"
            /\ UNCHANGED <<inflight, requests>>
       ELSE /\ inflight' = NextRequests(0, Len(matches'))
            /\ requests' = Ascending(inflight')
            /\ pc' = "await"
            /\ UNCHANGED result
    /\ UNCHANGED <<markdownContent, markdownPath, i, diagrams, outcomes, gatewayVars, publishVars, fileVars, diagramVars>>

\* the awaited convertMermaidToPng of block i settles: the diagram (or the placeholder) is
\* pushed, then the next request is issued, or the rewrite pass runs and the call returns
Settle(outcome) ==
    /\ pc = "await"
    /\ outcomes' = Append(outcomes, outcome)
    /\ diagrams' = Append(diagrams, ProcessedDiagram(markdownContent, markdownPath,
                                                      matches[i + 1], i, outcome))
    /\ i' = i + 1
    /\ inflight' = (inflight \ {i}) \cup NextRequests(i + 1, Len(matches))
    /\ requests' = requests \o Ascending(NextRequests(i + 1, Len(matches)) \ inflight)
    /\ IF i + 1 < Len(matches)
       THEN /\ pc' = "await"
            /\ UNCHANGED result
       ELSE /\ pc' = "done"
            /\ result' = [markdown |-> replace(markdownContent, matchAll(markdownContent, 1),
                                                diagrams', 0, 1),
                          diagrams |-> Converted(diagrams')]
    /\ UNCHANGED <<markdownContent, markdownPath, matches, gatewayVars, publishVars, fileVars, diagramVars>>

Convert == \E outcome \in ConverterOutcomes : Settle(outcome)

InitPipeline ==
    /\ server = "confluence"
    /\ MCP_API_KEY = "k1"
    /\ now = 0
    /\ rateLimitStore = EmptyMap
    /\ admittedCount = EmptyMap
    /\ admittedAt = AllAtOnce(rateLimitStore)
    /\ transports = EmptyMap
    /\ streams = {}
    /\ closed = {}
    /\ pending = [s \in SessionIds |-> EmptyBag]
    /\ events = [s \in SessionIds |-> EmptyBag]
    /\ accepted = [s \in SessionIds |-> EmptyBag]
    /\ last = NoRequest
    /\ nreq = 0
    /\ markdownContent \in Docs
    /\ markdownPath \in Paths
    /\ pc = "idle"
    /\ i = 0
    /\ matches = <<>>
    /\ diagrams = <<>>
    /\ inflight = {}
    /\ requests = <<>>
    /\ outcomes = <<>>
    /\ result = None
    /\ projectSpaceKey = None
    /\ envSpaceKey = None
    /\ PublishIdle
    /\ ConvertFileIdle
    /\ DiagramIdle

NextPipeline == Call \/ Convert

SpecPipeline == InitPipeline /\ [][NextPipeline]_vars
\* ------------------------------------------------------------------ tool handlers
\* at most this many tool calls in one run
MaxCalls == 2

\* values of the optional spaceKey argument of a tool call
SpaceKeyArgs == {None, "", "ARG"}
\* values of the optional markdownPath argument
SourcePaths == {None, "a.md", "b.md"}
\* values of the version argument of confluence_update_page
Versions == {1, 2}
\* the sessions whose client calls tools
CallerSessions == {"s1"}
\* number of diagram artifacts a published document yields
ArtifactCounts == {0, 2}
\* the documents published by confluence_create_page: source path and artifacts
CreatedDocuments == {[path |-> None, artifacts |-> 0], [path |-> "a.md", artifacts |-> 0],
                     [path |-> "a.md", artifacts |-> 2]}
\* the pages confluence_update_page is called for
UpdatedPages == {"100"}
ConfluenceTools == {"confluence_list_pages", "confluence_create_page",
                    "confluence_update_page", "confluence_delete_page"}
PandocTools == {"pandoc_convert", "pandoc_convert_file", "pandoc_info"}

\* getDefaultSpaceKey(): loadConfig keeps CONFLUENCE_SPACE_KEY || '', the getter gives
\* config.spaceKey || undefined
getDefaultSpaceKey == Or(Or(envSpaceKey, ""), None)

\* variant: the environment default is looked at before the project configuration
finalSpaceKeyEnvFirst(spaceKey) == Or(Or(spaceKey, getDefaultSpaceKey), projectSpaceKey)

\* spaceKey || config?.spaceKey || getDefaultSpaceKey()
finalSpaceKey(spaceKey) == Or(Or(spaceKey, projectSpaceKey), getDefaultSpaceKey)

NoSpaceKey == "No space key provided"

\* the message a handler puts in its error result when the caught error has none
Fallback(tool) ==
    CASE tool = "confluence_list_pages" -> "Failed to list Confluence pages"
      [] tool = "confluence_create_page" -> "Failed to create Confluence page"
      [] tool = "confluence_update_page" -> "Failed to update Confluence page"
      [] tool = "confluence_delete_page" -> "Failed to delete Confluence page"
      [] tool = "confluence_setup_project" ->
            "Failed to set up Confluence project configuration"
      [] tool = "pandoc_convert" -> "Conversion failed"
      [] tool = "pandoc_convert_file" -> "File conversion failed"
      [] tool = "pandoc_info" -> "Failed to get Pandoc info"

\* the result of a handler that returns normally
Success(text) == [isError |-> FALSE, text |-> text, thrown |-> FALSE]

\* variant: the catch block throws the error on
ToolErrorRethrow(message, fallback) == [isError |-> FALSE, text |-> message, thrown |-> TRUE]

\* the catch block of a handler: { content: [{ error: error.message || fallback }],
\* isError: true }
ToolError(message, fallback) ==
    [isError |-> TRUE, text |-> Or(message, fallback), thrown |-> FALSE]

\* what PandocService gives a handler: a result, a result with success false, or an
\* exception (with or without a message)
PandocOutcomes == {"success", "failed", "throws", "throws without message"}

\* the handlers of pandoc_convert, pandoc_convert_file and pandoc_info
PandocTool(tool, outcome) ==
    CASE outcome = "success" -> Success("success")
      [] outcome = "failed" ->
            IF tool = "pandoc_info" THEN Success("success")
            ELSE [isError |-> TRUE, text |-> "pandoc: conversion error", thrown |-> FALSE]
      [] outcome = "throws" -> ToolError("spawn pandoc ENOENT", Fallback(tool))
      [] outcome = "throws without message" -> ToolError("", Fallback(tool))

\* ---- MarkdownPageCache: the mappings in the order of their keys in the cache file
\* variant: setPageMapping saves the copy of the cache the handler loaded when it was
\* called, before any other handler wrote
setPageMappingOverStaleCopy(c, key, mapping) == <<[key |-> key] @@ mapping>>

\* setPageMapping(key, mapping): an upsert keyed by key
setPageMapping(c, key, mapping) ==
    IF \E n \in 1..Len(c) : c[n].key = key
    THEN [n \in 1..Len(c) |-> IF c[n].key = key THEN [key |-> key] @@ mapping ELSE c[n]]
    ELSE Append(c, [key |-> key] @@ mapping)

\* removePageMapping(key)
removePageMapping(c, key) == SelectSeq(c, LAMBDA e : e.key # key)

\* variant: the mapping is stored under the id of the page
CacheKeyByPage(sourcePath, pageId) == pageId

\* the key under which a handler stores the mapping of a published document
CacheKey(sourcePath, pageId) == sourcePath

\* variant: the mapping is cached whether or not a markdownPath is provided
cacheAfterPublishAlways(c, sourcePath, pageId, spaceKey) ==
    setPageMapping(c, CacheKey(sourcePath, pageId),
                   [markdownPath |-> sourcePath, pageId |-> pageId, spaceKey |-> spaceKey])

\* create and update, "cache the mapping if markdownPath is provided"
cacheAfterPublish(c, sourcePath, pageId, spaceKey) ==
    IF Truthy(sourcePath)
    THEN setPageMapping(c, CacheKey(sourcePath, pageId),
                        [markdownPath |-> sourcePath, pageId |-> pageId,
                         spaceKey |-> spaceKey])
    ELSE c

\* delete, "remove from cache": the mapping of markdownPath, or without a path the first
\* mapping of the page (the loop breaks at the first match)
cacheAfterDelete(c, pageId, sourcePath) ==
    IF Truthy(sourcePath) THEN removePageMapping(c, sourcePath)
    ELSE LET hits == {n \in 1..Len(c) : c[n].pageId = pageId} IN
         IF hits = {} THEN c ELSE removePageMapping(c, c[Min(hits)].key)

\* ---- ConfluenceClient and the Confluence instance
\* the remote call a handler makes once the Markdown is converted
RemoteCallAfterConvert(tool) ==
    IF tool = "confluence_create_page" THEN "createPage" ELSE "updatePage"

\* variant: the handler looks up the current version of the page and sends that one
requestVersionCurrent(call) == remote[call.pageId].version

\* the version confluence_update_page passes to client.updatePage: its version argument
requestVersion(call) == call.version

\* variant: the page body that references the attachments is written before the uploads
NextStageRewriteFirst(call) ==
    CASE call.stage = "convert" -> RemoteCallAfterConvert(call.tool)
      [] call.stage = "createPage" -> IF call.artifacts > 0 THEN "rewrite" ELSE "return"
      [] call.stage = "rewrite" -> IF call.uploaded < call.artifacts THEN "attach" ELSE "return"
      [] call.stage = "attach" ->
            IF call.uploaded + 1 < call.artifacts THEN "attach" ELSE "return"
      [] OTHER -> "return"

\* what a call waits for next once the answer it is waiting for has come: the page is
\* created, then each artifact is uploaded as an attachment of it, then the body is
\* rewritten to reference the attachments; "return" when the handler goes on
NextStage(call) ==
    CASE call.stage = "convert" -> RemoteCallAfterConvert(call.tool)
      [] call.stage = "createPage" -> IF call.artifacts > 0 THEN "attach" ELSE "return"
      [] call.stage = "attach" ->
            IF call.uploaded + 1 < call.artifacts THEN "attach" ELSE "rewrite"
      [] OTHER -> "return"

\* the ids no page ever had
FreshPageIds == {p \in PageIds : remote[p].version = 0}

Exists(pageId) == remote[pageId].version >= 1

\* the answer to the request a call is waiting for.  reachable: whether the collaborator
\* can be reached and answers in time.  Gives the pages afterwards, whether the request
\* succeeded, the message of the error otherwise, and the page the call is about.
RemoteAnswer(call, reachable) ==
    LET fail(message) == [ok |-> FALSE, message |-> message, remote |-> remote,
                          pageId |-> call.pageId]
    IN  CASE ~reachable -> fail("Request failed")
          [] reachable /\ call.stage \in {"convert", "listPages", "listSpaces"} ->
                [ok |-> TRUE, message |-> "", remote |-> remote, pageId |-> call.pageId]
          [] reachable /\ call.stage = "createPage" ->
                IF FreshPageIds = {} THEN fail("Request failed")
                ELSE LET new == CHOOSE p \in FreshPageIds : TRUE
                     IN  [ok |-> TRUE, message |-> "", pageId |-> new,
                          remote |-> [remote EXCEPT ![new] =
                                        [version |-> 1, spaceKey |-> call.spaceKey,
                                         attachments |-> 0, refs |-> 0]]]
          [] reachable /\ call.stage = "attach" ->
                IF ~Exists(call.pageId) THEN fail("Not found")
                ELSE [ok |-> TRUE, message |-> "", pageId |-> call.pageId,
                      remote |-> [remote EXCEPT ![call.pageId].attachments = @ + 1]]
          [] reachable /\ call.stage = "rewrite" ->
                IF ~Exists(call.pageId) THEN fail("Not found")
                ELSE [ok |-> TRUE, message |-> "", pageId |-> call.pageId,
                      remote |-> [remote EXCEPT ![call.pageId].version = @ + 1,
                                                ![call.pageId].refs = call.artifacts]]
          [] reachable /\ call.stage = "updatePage" ->
                IF ~Exists(call.pageId) THEN fail("Not found")
                ELSE IF requestVersion(call) # remote[call.pageId].version
                THEN fail("Conflict")
                ELSE [ok |-> TRUE, message |-> "", pageId |-> call.pageId,
                      remote |-> [remote EXCEPT ![call.pageId].version = @ + 1,
                                                ![call.pageId].refs = 0]]
          [] reachable /\ call.stage = "deletePage" ->
                IF ~Exists(call.pageId) THEN fail("Not found")
                ELSE [ok |-> TRUE, message |-> "", pageId |-> call.pageId,
                      remote |-> [remote EXCEPT ![call.pageId] =
                                    [version |-> -1, spaceKey |-> None, attachments |-> 0,
                                     refs |-> 0]]]

\* variant: the cache is written whether or not the remote call succeeded
cacheAfterIgnoringFailure(c, call, answer) ==
    IF call.tool \in {"confluence_create_page", "confluence_update_page"}
    THEN IF answer.pageId = None THEN c
         ELSE cacheAfterPublish(c, call.markdownPath, answer.pageId,
                                answer.remote[answer.pageId].spaceKey)
    ELSE IF call.tool = "confluence_delete_page"
    THEN cacheAfterDelete(c, call.pageId, call.markdownPath)
    ELSE c

\* the cache when a handler returns: written after the awaited remote call, which the
\* catch block skips
cacheAfter(c, call, answer) ==
    IF ~answer.ok THEN c
    ELSE IF call.tool \in {"confluence_create_page", "confluence_update_page"}
    THEN cacheAfterPublish(c, call.markdownPath, answer.pageId,
                           answer.remote[answer.pageId].spaceKey)
    ELSE IF call.tool = "confluence_delete_page"
    THEN cacheAfterDelete(c, call.pageId, call.markdownPath)
    ELSE c

\* two calls are the same request: the same tool with the same arguments in one session
SameRequest(c, d) ==
    /\ c.tool = d.tool /\ c.session = d.session /\ c.spaceKeyArg = d.spaceKeyArg
    /\ c.markdownPath = d.markdownPath /\ c.version = d.version
    /\ c.artifacts = d.artifacts
    /\ c.tool = "confluence_create_page" \/ c.pageId = d.pageId

\* a handler is called for a request of an open session and runs up to its first await,
\* or up to the return of the "no space key" error (a client does not repeat a request
\* that is still in flight).  confluence_setup_project assigns its arguments to
\* process.env.CONFLUENCE_* and calls loadConfig() before its first await.
ToolCall(session, tool, spaceKey, sourcePath, pageId, version, artifacts) ==
    LET resolved == IF tool \in {"confluence_list_pages", "confluence_create_page"}
                    THEN finalSpaceKey(spaceKey) ELSE None
        call == [tool |-> tool, session |-> session,
                 spaceKeyArg |-> spaceKey, spaceKey |-> resolved,
                 markdownPath |-> sourcePath, pageId |-> pageId, version |-> version,
                 artifacts |-> artifacts, uploaded |-> 0,
                 stage |-> CASE tool = "confluence_list_pages" -> "listPages"
                             [] tool = "confluence_delete_page" -> "deletePage"
                             [] tool = "confluence_setup_project" -> "listSpaces"
                             [] OTHER -> "convert"]
    IN  /\ ncalls < MaxCalls
        /\ session \in streams
        /\ Lookup(transports, session) = session
        /\ \A d \in calls : ~SameRequest(call, d)
        /\ ncalls' = ncalls + 1
        /\ IF tool \in {"confluence_list_pages", "confluence_create_page"}
              /\ ~Truthy(resolved)
           THEN /\ done' = [call |-> [call EXCEPT !.stage = "return"],
                            result |-> [isError |-> TRUE, text |-> NoSpaceKey,
                                        thrown |-> FALSE],
                            delivered |-> TRUE]
                /\ UNCHANGED calls
           ELSE /\ calls' = calls \cup {call}
                /\ UNCHANGED done
        /\ confluenceConfig' = IF tool = "confluence_setup_project" THEN SetupArguments
                               ELSE confluenceConfig
        /\ UNCHANGED <<projectSpaceKey, envSpaceKey, remote, cache, gatewayVars,
                       pipelineVars, fileVars, diagramVars>>

\* the answer a call is waiting for arrives and its handler runs on: to the next await,
\* or through the cache write to its return, or through the catch block to its return.
\* The result goes out on the stream of the session, or is dropped when that is closed.
\* confluence_setup_project saves the project configuration once the space is found.
Resume(call, reachable) ==
    LET answer == RemoteAnswer(call, reachable)
        next == [call EXCEPT !.stage = NextStage(call), !.pageId = answer.pageId,
                             !.uploaded = IF call.stage = "attach" THEN @ + 1 ELSE @]
    IN  /\ call \in calls
        /\ remote' = answer.remote
        /\ projectSpaceKey' = IF call.tool = "confluence_setup_project" /\ answer.ok
                               THEN call.spaceKeyArg ELSE projectSpaceKey
        /\ IF answer.ok /\ next.stage # "return"
           THEN /\ calls' = (calls \ {call}) \cup {next}
                /\ UNCHANGED <<cache, done>>
           ELSE /\ calls' = calls \ {call}
                /\ cache' = cacheAfter(cache, call, answer)
                /\ done' = [call |-> [next EXCEPT !.stage = "return"],
                            result |-> IF answer.ok THEN Success("success")
                                       ELSE ToolError(answer.message, Fallback(call.tool)),
                            delivered |-> call.session \in streams]
        /\ UNCHANGED <<envSpaceKey, confluenceConfig, ncalls, gatewayVars, pipelineVars,
                       fileVars, diagramVars>>

Dispatch ==
    \E session \in CallerSessions :
       \/ \E spaceKey \in SpaceKeyArgs :
             ToolCall(session, "confluence_list_pages", spaceKey, None, None, 0, 0)
       \/ \E spaceKey \in SpaceKeyArgs \ {""}, doc \in CreatedDocuments :
             ToolCall(session, "confluence_create_page", spaceKey, doc.path, None, 0,
                      doc.artifacts)
       \/ \E pageId \in UpdatedPages, path \in SourcePaths, version \in Versions :
             ToolCall(session, "confluence_update_page", None, path, pageId, version, 0)
       \/ \E pageId \in PageIds, path \in SourcePaths :
             ToolCall(session, "confluence_delete_page", None, path, pageId, 0, 0)

Respond == \E call \in calls, reachable \in BOOLEAN : Resume(call, reachable)

\* the confluence server with two sessions open: the state after two clients connected
InitPublish ==
    /\ server = "confluence"
    /\ MCP_API_KEY = "k1"
    /\ now = 0
    /\ rateLimitStore = ("10.0.0.1" :> [count |-> 2, resetTime |-> RATE_LIMIT_WINDOW])
    /\ admittedCount = ("10.0.0.1" :> 2)
    /\ admittedAt = AllAtOnce(rateLimitStore)
    /\ transports = [s \in SessionIds |-> s]
    /\ streams = SessionIds
    /\ closed = {}
    /\ pending = [s \in SessionIds |-> EmptyBag]
    /\ events = [s \in SessionIds |-> EmptyBag]
    /\ accepted = [s \in SessionIds |-> EmptyBag]
    /\ last = Response("GET /mcp", "10.0.0.1", "k1", Unread, Unread, NoBody, 200,
                       "event: endpoint", 0, "s2")
    /\ nreq = 2
    /\ PipelineIdle
    /\ \E config \in SpaceKeyConfigs :
          projectSpaceKey = config.project /\ envSpaceKey = config.env
    /\ PublishIdle
    /\ ConvertFileIdle
    /\ DiagramIdle

\* the client of the second session sets up the project configuration for its space
SetupProject == ToolCall("s2", "confluence_setup_project", "TEAM", None, None, 0, 0)

\* tool calls of the open sessions, the answers of the collaborators, and disconnects
NextPublish == Dispatch \/ Respond \/ Disconnect

SpecPublish == InitPublish /\ [][NextPublish]_vars

\* the tool calls of two sessions, one of which configures the project
NextShared == Dispatch \/ Respond \/ SetupProject

SpecShared == InitPublish /\ [][NextShared]_vars

\* ------------------------------------------------------------------ file conversion
\* A path name is the sequence of its characters.
\* config.workspaceDir: "/w"
workspaceDir == <<"/", "w">>
\* the template option when it is absent
NoTemplate == <<>>
\* arguments of pandoc_convert_file
\*   inputPath: a, ../a, /w/a, /wx/a, /x/a
\*   outputPath: o, d/o, ../o, /wx/o
\*   template: absent, t, /x/t, ../wx/t
ConvertFileArguments ==
    [inputPath : {<<"a">>, <<".", ".", "/", "a">>, <<"/", "w", "/", "a">>,
                  <<"/", "w", "x", "/", "a">>, <<"/", "x", "/", "a">>},
     outputPath : {<<"o">>, <<"d", "/", "o">>, <<".", ".", "/", "o">>,
                   <<"/", "w", "x", "/", "o">>},
     template : {NoTemplate, <<"t">>, <<"/", "x", "/", "t">>,
                 <<".", ".", "/", "w", "x", "/", "t">>}]

\* the segments of a path name: p.split('/')
RECURSIVE Segments(_)
Segments(p) ==
    IF p = <<>> THEN << <<>> >>
    ELSE LET rest == Segments(Tail(p)) IN
         IF Head(p) = "/" THEN << <<>> >> \o rest
         ELSE << <<Head(p)>> \o Head(rest) >> \o Tail(rest)

\* the segments of a path name with ".", ".." and empty segments resolved, after acc
RECURSIVE Normalize(_, _)
Normalize(segs, acc) ==
    IF segs = <<>> THEN acc
    ELSE LET s == Head(segs) IN
         Normalize(Tail(segs),
                   IF s = <<>> \/ s = <<".">> THEN acc
                   ELSE IF s = <<".", ".">>
                   THEN (IF acc = <<>> THEN acc ELSE SubSeq(acc, 1, Len(acc) - 1))
                   ELSE Append(acc, s))

isAbsolute(p) == p # <<>> /\ Head(p) = "/"

\* path.resolve of an absolute path name
resolve(p) ==
    LET RECURSIVE Joined(_)
        Joined(segs) ==
            IF segs = <<>> THEN <<>> ELSE <<"/">> \o Head(segs) \o Joined(Tail(segs))
        normal == Normalize(Segments(p), <<>>)
    IN  IF normal = <<>> THEN <<"/">> ELSE Joined(normal)

\* path.resolve(from, to) with an absolute from
resolveFrom(from, to) == IF isAbsolute(to) THEN resolve(to) ELSE resolve(from \o <<"/">> \o to)

\* path.join(a, b) with an absolute a: the normalised concatenation
join(a, b) == resolve(a \o <<"/">> \o b)

\* path.dirname of an absolute path name without a trailing slash
dirname(p) ==
    LET k == CHOOSE j \in 1..Len(p) : p[j] = "/" /\ \A m \in (j + 1)..Len(p) : p[m] # "/"
    IN  IF k = 1 THEN <<"/">> ELSE SubSeq(p, 1, k - 1)

\* String.prototype.startsWith
startsWith(s, prefix) == Len(s) >= Len(prefix) /\ SubSeq(s, 1, Len(prefix)) = prefix

\* validatePath: TRUE when it returns, FALSE when it throws
validatePath(filePath) == startsWith(resolve(filePath), resolve(workspaceDir))

PathTraversal == "Path traversal detected: Access denied outside workspace directory"

Failed(message) == [success |-> FALSE, error |-> message]

\* convertFile up to its first await: the paths are resolved and validated
ConvertFileStart(inputPath, outputPath, template) ==
    LET resolvedInputPath ==
            IF isAbsolute(inputPath) THEN inputPath ELSE join(workspaceDir, inputPath)
        resolvedOutputPath ==
            IF isAbsolute(outputPath) THEN outputPath ELSE join(workspaceDir, outputPath)
    IN  /\ convertFilePc = "idle"
        /\ convertFileCall' = [inputPath |-> resolvedInputPath,
                               outputPath |-> resolvedOutputPath, template |-> template]
        /\ IF validatePath(resolvedInputPath) /\ validatePath(resolvedOutputPath)
           THEN convertFilePc' = "access" /\ UNCHANGED conversion
           ELSE convertFilePc' = "done" /\ conversion' = Failed(PathTraversal)
        /\ UNCHANGED <<effects, gatewayVars, pipelineVars, publishVars, diagramVars>>

\* await fs.access(resolvedInputPath) settles; then fs.mkdir is called
AccessSettles(exists) ==
    /\ convertFilePc = "access"
    /\ effects' = effects \cup {[op |-> "access", path |-> resolve(convertFileCall.inputPath)]}
    /\ IF exists
       THEN convertFilePc' = "mkdir" /\ UNCHANGED conversion
       ELSE convertFilePc' = "done" /\ conversion' = Failed("ENOENT")
    /\ UNCHANGED <<convertFileCall, gatewayVars, pipelineVars, publishVars, diagramVars>>

\* await fs.mkdir(outputDir, { recursive: true }) settles; then buildPandocArgs
\* validates the template and pandoc is spawned
MkdirSettles(ok) ==
    LET outputDir == dirname(convertFileCall.outputPath)
        made == {[op |-> "mkdir", path |-> resolve(outputDir)]}
        templatePath == resolveFrom(workspaceDir, convertFileCall.template)
    IN  /\ convertFilePc = "mkdir"
        /\ IF ~ok
           THEN /\ convertFilePc' = "done" /\ conversion' = Failed("EACCES")
                /\ UNCHANGED effects
           ELSE IF convertFileCall.template # NoTemplate /\ ~validatePath(templatePath)
           THEN /\ convertFilePc' = "done" /\ conversion' = Failed(PathTraversal)
                /\ effects' = effects \cup made
           ELSE /\ convertFilePc' = "pandoc" /\ UNCHANGED conversion
                /\ effects' = effects \cup made \cup {[op |-> "spawn", path |-> <<>>]}
        /\ UNCHANGED <<convertFileCall, gatewayVars, pipelineVars, publishVars, diagramVars>>

\* the pandoc process closes: with exit code 0 it has read its input and its template
\* and written its output.  When the process could not be started (a negative errno, as
\* ENOENT for a missing binary) the child emits 'error' and not 'close'; no 'error'
\* listener is attached, so the event is thrown as an uncaught exception and the server
\* process exits with the promise of convertFile unsettled.
PandocExits(exitCode) ==
    LET templatePath == resolveFrom(workspaceDir, convertFileCall.template) IN
    /\ convertFilePc = "pandoc"
    /\ IF exitCode < 0
       THEN convertFilePc' = "crashed" /\ UNCHANGED <<conversion, effects>>
       ELSE IF exitCode # 0
       THEN /\ convertFilePc' = "done" /\ conversion' = Failed("Pandoc failed")
            /\ UNCHANGED effects
       ELSE /\ convertFilePc' = "readFile" /\ UNCHANGED conversion
            /\ effects' = effects
                 \cup {[op |-> "read", path |-> resolve(convertFileCall.inputPath)],
                       [op |-> "write", path |-> resolve(convertFileCall.outputPath)]}
                 \cup (IF convertFileCall.template = NoTemplate THEN {}
                       ELSE {[op |-> "read", path |-> templatePath]})
    /\ UNCHANGED <<convertFileCall, gatewayVars, pipelineVars, publishVars, diagramVars>>

\* await fs.readFile(resolvedOutputPath) settles and convertFile returns
ReadFileSettles(ok) ==
    /\ convertFilePc = "readFile"
    /\ convertFilePc' = "done"
    /\ effects' = effects \cup {[op |-> "read", path |-> resolve(convertFileCall.outputPath)]}
    /\ conversion' = IF ok THEN [success |-> TRUE, error |-> ""] ELSE Failed("EIO")
    /\ UNCHANGED <<convertFileCall, gatewayVars, pipelineVars, publishVars, diagramVars>>

\* the pandoc server with no session, before a call of convertFile
InitConvertFile ==
    /\ server = "pandoc"
    /\ MCP_API_KEY = "k1"
    /\ now = 0
    /\ rateLimitStore = EmptyMap
    /\ admittedCount = EmptyMap
    /\ admittedAt = AllAtOnce(rateLimitStore)
    /\ transports = EmptyMap
    /\ streams = {}
    /\ closed = {}
    /\ pending = [s \in SessionIds |-> EmptyBag]
    /\ events = [s \in SessionIds |-> EmptyBag]
    /\ accepted = [s \in SessionIds |-> EmptyBag]
    /\ last = NoRequest
    /\ nreq = 0
    /\ PipelineIdle
    /\ projectSpaceKey = None
    /\ envSpaceKey = None
    /\ PublishIdle
    /\ ConvertFileIdle
    /\ DiagramIdle

\* one call of convertFile and the settling of its awaits
NextConvertFile ==
    \/ \E args \in ConvertFileArguments :
          ConvertFileStart(args.inputPath, args.outputPath, args.template)
    \/ \E exists \in BOOLEAN : AccessSettles(exists)
    \/ \E ok \in BOOLEAN : MkdirSettles(ok)
    \/ \E exitCode \in {0, 1, -2} : PandocExits(exitCode)
    \/ \E ok \in BOOLEAN : ReadFileSettles(ok)

SpecConvertFile == InitConvertFile /\ [][NextConvertFile]_vars

\* ------------------------------------------------------------------ diagram converter
\* fs.unlink(path).catch(() => {})
unlink(files, path) == [f \in DOMAIN files \ {path} |-> files[f]]

\* app.post('/convert/mermaid2png') up to its first await: the body is checked, the
\* output path is named after Date.now(), convertMermaidToPng names its input path after
\* Date.now() and a random string (taken as unique to the request) and calls fs.writeFile
PostMermaid2Png(r, code) ==
    /\ conversions[r].pc = "idle"
    /\ conversions' = [conversions EXCEPT ![r] =
          IF ~Truthy(code)
          THEN [NoConversion EXCEPT !.pc = "done", !.status = 400]
          ELSE [NoConversion EXCEPT !.pc = "writeFile", !.mermaidCode = code,
                                    !.inputPath = <<"/tmp/diagram-", now, "-", r, ".mmd">>,
                                    !.outputPath = <<"/tmp/diagram-", now, ".png">>]]
    /\ UNCHANGED <<tmp, gatewayVars, pipelineVars, publishVars, fileVars>>

\* await fs.writeFile(inputPath, mermaidContent) settles; then mmdc is spawned
WriteFileSettles(r) ==
    /\ conversions[r].pc = "writeFile"
    /\ tmp' = (conversions[r].inputPath :> conversions[r].mermaidCode) @@ tmp
    /\ conversions' = [conversions EXCEPT ![r].pc = "mmdc"]
    /\ UNCHANGED <<gatewayVars, pipelineVars, publishVars, fileVars>>

\* the mmdc process closes: with exit code 0 it has rendered its input file into its
\* output file.  The finally block unlinks the input file; after a failure the catch block
\* of the route goes on to unlink the output file.
MmdcCloses(r, exitCode) ==
    LET c == conversions[r]
        rendered == IF exitCode = 0
                    THEN (c.outputPath :> Png(tmp[c.inputPath])) @@ tmp ELSE tmp
    IN  /\ c.pc = "mmdc"
        /\ tmp' = unlink(rendered, c.inputPath)
        /\ conversions' = [conversions EXCEPT ![r].exitCode = exitCode,
                                              ![r].failed = exitCode # 0,
                                              ![r].pc = IF exitCode = 0 THEN "readFile"
                                                        ELSE "unlink"]
        /\ UNCHANGED <<gatewayVars, pipelineVars, publishVars, fileVars>>

\* await fs.readFile(outputPath) settles: with the content of the file, or with ENOENT
\* when there is none, which the catch block of the route handles
OutputRead(r) ==
    LET c == conversions[r] IN
    /\ c.pc = "readFile"
    /\ conversions' = [conversions EXCEPT
          ![r].pc = "unlink",
          ![r].failed = c.outputPath \notin DOMAIN tmp,
          ![r].pngBuffer = IF c.outputPath \in DOMAIN tmp THEN tmp[c.outputPath] ELSE None]
    /\ UNCHANGED <<tmp, gatewayVars, pipelineVars, publishVars, fileVars>>

\* await fs.unlink(outputPath).catch(() => {}) settles and the response is sent: the PNG,
\* or from the catch block a 500
OutputUnlinked(r) ==
    LET c == conversions[r] IN
    /\ c.pc = "unlink"
    /\ tmp' = unlink(tmp, c.outputPath)
    /\ conversions' = [conversions EXCEPT ![r].pc = "done",
                                          ![r].status = IF c.failed THEN 500 ELSE 200]
    /\ UNCHANGED <<gatewayVars, pipelineVars, publishVars, fileVars>>

\* the requests of a client, the settling of their awaits, and the clock
NextDiagram ==
    \/ \E r \in MermaidRequests, code \in MermaidCodes : PostMermaid2Png(r, code)
    \/ \E r \in MermaidRequests : WriteFileSettles(r)
    \/ \E r \in MermaidRequests, exitCode \in {0, 1} : MmdcCloses(r, exitCode)
    \/ \E r \in MermaidRequests : OutputRead(r)
    \/ \E r \in MermaidRequests : OutputUnlinked(r)
    \/ Clock

\* the diagram converter started, next to the Confluence server that calls it
InitDiagram ==
    /\ server = "confluence"
    /\ MCP_API_KEY = "k1"
    /\ now = 0
    /\ rateLimitStore = EmptyMap
    /\ admittedCount = EmptyMap
    /\ admittedAt = AllAtOnce(rateLimitStore)
    /\ transports = EmptyMap
    /\ streams = {}
    /\ closed = {}
    /\ pending = [s \in SessionIds |-> EmptyBag]
    /\ events = [s \in SessionIds |-> EmptyBag]
    /\ accepted = [s \in SessionIds |-> EmptyBag]
    /\ last = NoRequest
    /\ nreq = 0
    /\ PipelineIdle
    /\ projectSpaceKey = None
    /\ envSpaceKey = None
    /\ PublishIdle
    /\ ConvertFileIdle
    /\ DiagramIdle

\* the diagram converter serving requests that may arrive within one millisecond
SpecDiagram == InitDiagram /\ [][NextDiagram]_vars

\* ------------------------------------------------------------------ properties
\* the last step served an HTTP request
Served == nreq' = nreq + 1

\* the credential a request supplies: the x-mcp-api-key header, or without one the apiKey
\* query parameter
Supplied(r) == IF r.hdr # None /\ r.hdr # "" THEN r.hdr ELSE r.qry

\* the request reached the authenticator / was let through by it
Authenticated(r) == r.route \in AuthRoutes /\ r.status # 429
AuthAccepted(r) == Authenticated(r) /\ r.text \notin {ConfigurationError, Unauthorized}

SessionState == <<transports, streams, closed, pending, events, accepted>>

\* C1: a request to GET /mcp or POST /messages passes the authenticator if and only if
\* the server secret is configured and the supplied credential is present and equal to
\* it; a request that does not pass leaves the session table and the message queues
\* unchanged (no session created, no message routed).
C1_AcceptIffSecretAndCredentialMatch ==
    /\ [](Authenticated(last) =>
            (AuthAccepted(last) <=>
               /\ MCP_API_KEY # None /\ MCP_API_KEY # ""
               /\ Supplied(last) # None /\ Supplied(last) # ""
               /\ Supplied(last) = MCP_API_KEY))
    /\ [][(Served /\ last'.route \in AuthRoutes /\ ~AuthAccepted(last'))
            => UNCHANGED SessionState]_vars

\* C1 witness: a request whose credential came in the query parameter was accepted and
\* opened a session
C1_Witness ==
    /\ last.route = "GET /mcp" /\ last.status = 200
    /\ last.hdr = "" /\ last.qry = "k1"
    /\ last.session \in streams

\* C2: without a configured secret (unset or empty) every request to an authenticated
\* endpoint fails (configuration error, or the limiter's 429), whatever credential it
\* carries, and no session ever exists.
C2_NoSecretFailsEveryRequest ==
    (MCP_API_KEY = None \/ MCP_API_KEY = "") =>
        /\ last.route \in AuthRoutes =>
              \/ last.status = 500 /\ last.text = ConfigurationError
              \/ last.status = 429
        /\ DOMAIN transports = {} /\ streams = {} /\ closed = {}
        /\ \A s \in SessionIds : accepted[s] = EmptyBag

\* C2 witness: the secret is the empty string, the request carries the empty string as
\* its credential, and it is answered with the configuration error
C2_Witness ==
    /\ MCP_API_KEY = ""
    /\ last.route = "GET /mcp" /\ last.hdr = "" /\ last.qry = None
    /\ last.status = 500

\* C3: every entry of the rate-limit table has a count between 1 and 100; a request of a
\* client whose entry is at the ceiling and not expired is answered 429 and leaves the
\* entry as it is; no more than 100 requests of a client are passed on between the
\* creation of its entry and the entry's resetTime.
C3_CountWithinCeiling ==
    /\ [](\A c \in DOMAIN rateLimitStore :
            /\ rateLimitStore[c].count >= 1
            /\ rateLimitStore[c].count <= RATE_LIMIT_MAX_REQUESTS
            /\ admittedCount[c] <= RATE_LIMIT_MAX_REQUESTS)
    /\ [][\A c \in DOMAIN rateLimitStore :
            (/\ Served /\ last'.clientId = c
             /\ rateLimitStore[c].count = RATE_LIMIT_MAX_REQUESTS
             /\ now <= rateLimitStore[c].resetTime)
            => /\ last'.status = 429
               /\ c \in DOMAIN rateLimitStore' /\ rateLimitStore'[c] = rateLimitStore[c]
               /\ admittedCount'[c] = admittedCount[c]]_vars

\* C3 witness: a client at the ceiling has just been rejected inside its window
C3_Witness ==
    /\ last.status = 429
    /\ last.clientId \in DOMAIN rateLimitStore
    /\ rateLimitStore[last.clientId].count = RATE_LIMIT_MAX_REQUESTS
    /\ admittedCount[last.clientId] = RATE_LIMIT_MAX_REQUESTS
    /\ now > 0 /\ now <= rateLimitStore[last.clientId].resetTime

\* C4: the retry-after value of a 429 is at least 0 and at most the window duration in
\* seconds (900).
C4_RetryAfterWithinWindow ==
    last.status = 429 =>
        /\ last.retryAfter >= 0
        /\ last.retryAfter <= RATE_LIMIT_WINDOW \div 1000

\* C4 witness: a rejection one millisecond into the window, whose hint is rounded up to
\* the full 900 seconds
C4_Witness ==
    /\ last.status = 429 /\ now = 1
    /\ rateLimitStore[last.clientId].resetTime = RATE_LIMIT_WINDOW
    /\ last.retryAfter = 900

\* C5 (as claimed, with "404-equivalent" read as any 4xx answer): an authenticated POST
\* whose sessionId is absent or names no open session is answered with a client error
\* saying that there is no such session, nothing is thrown inside the handler, and no
\* transport receives the message.
C5_NoOpenSessionGivesNotFound ==
    [][(/\ Served /\ last'.route = "POST /messages" /\ AuthAccepted(last')
        /\ (last'.sid = None \/ last'.sid \notin streams))
       => /\ last'.status \in {400, 404}
          /\ last'.text \in {"Session not found", "Missing sessionId parameter",
                              "Invalid or missing sessionId"}
          /\ last'.session = None
          /\ pending' = pending]_vars

\* C6: when the stream of a session closes its id leaves the session table in the same
\* step; from then on no table entry leads to a closed stream, and a POST carrying the id
\* of a closed session is not routed (no transport receives it, nothing is queued).
C6_ClosedSessionLeavesTable ==
    /\ [](\A s \in closed :
            s \notin DOMAIN transports /\ (\A k \in DOMAIN transports : transports[k] # s))
    /\ [][\A s \in streams : s \notin streams' => s \notin DOMAIN transports']_vars
    /\ [][(Served /\ last'.route = "POST /messages" /\ last'.sid \in closed)
            => (last'.session = None /\ last'.status # 202 /\ pending' = pending)]_vars

\* C6 witness: a POST for a session that was opened and then closed found no transport
C6_Witness ==
    /\ last.route = "POST /messages" /\ last.sid \in closed
    /\ last.status = 404 /\ last.text = "Session not found"

\* C7: a JSON-RPC request POSTed for an open session is answered 202 Accepted (no message
\* event is written by the POST itself) and is handed to the transport of that session
\* only; on every open stream the events carrying id i plus the requests with id i still
\* in progress are exactly the accepted requests with id i of that session, on no stream
\* are there more; and every accepted request is eventually answered.
C7_AcceptedThenOneEventOnOwnStream ==
    /\ [](last.route = "POST /messages" /\ last.session # None
            => last.status = 202 /\ last.session = last.sid)
    /\ [](\A s \in SessionIds, id \in RpcIds :
            /\ events[s][id] + pending[s][id] <= accepted[s][id]
            /\ s \in streams => events[s][id] + pending[s][id] = accepted[s][id])
    /\ [][Served => events' = events]_vars
    /\ \A s \in SessionIds, id \in RpcIds : (pending[s][id] > 0) ~> (pending[s][id] = 0)

\* C7 witness: two sessions are open, one request with id 1 was accepted for s1, and its
\* one message event is on the stream of s1 and not on the stream of s2
C7_Witness ==
    /\ streams = {"s1", "s2"}
    /\ accepted["s1"][1] = 1 /\ events["s1"][1] = 1 /\ pending["s1"][1] = 0
    /\ events["s2"] = EmptyBag

\* the fenced text of the k-th extracted block (k = 1, 2, ...)
BlockText(k) == SubSeq(markdownContent, matches[k].start, matches[k].end)

\* the image reference of the k-th block
BlockRef(k) ==
    "![Diagram " \o ToString(k) \o "](" \o baseName(markdownPath) \o "-diagram-"
        \o ToString(k) \o ".png)"

\* the document with every block from the k-th on replaced by its image reference, except
\* the blocks in F, which stay as they are; pos is the first token not yet copied
RECURSIVE Rewritten(_, _, _)
Rewritten(F, k, pos) ==
    IF k > Len(matches) THEN SubSeq(markdownContent, pos, Len(markdownContent))
    ELSE SubSeq(markdownContent, pos, matches[k].start - 1)
           \o (IF k \in F THEN BlockText(k) ELSE <<BlockRef(k)>>)
           \o Rewritten(F, k + 1, matches[k].end + 1)

\* the blocks whose conversion failed: timeout, non-2xx answer, service unreachable
FailedBlocks == {k \in 1..Len(outcomes) : outcomes[k] = "error"}

\* the blocks for which the converter gave no image: it failed or answered with an empty body
BlocksWithoutImage == {k \in 1..Len(outcomes) : outcomes[k] \in {"error", "empty"}}

\* the call returns as soon as every block has been attempted, whatever the outcomes
Completes ==
    /\ pc = "await" => Len(outcomes) < Len(matches)
    /\ (Len(matches) > 0 /\ Len(outcomes) = Len(matches)) => pc = "done"

\* C8 (as claimed): with F the blocks whose conversion failed, the call completes, the
\* rewritten document has the image reference of every block not in F and the original
\* fenced text of every block in F, and n - |F| artifacts are returned.
C8_PartialFailureIsolation ==
    /\ Completes
    /\ (pc = "done" /\ Len(matches) > 0) =>
          /\ result.markdown = Rewritten(FailedBlocks, 1, 1)
          /\ Len(result.diagrams) = Len(matches) - Cardinality(FailedBlocks)

\* C8 (amended): the same with F the blocks for which the converter gave no image, that
\* is the blocks whose conversion failed and the blocks answered with an empty body.
C8_PartialFailureIsolationAmended ==
    /\ Completes
    /\ (pc = "done" /\ Len(matches) > 0) =>
          /\ result.markdown = Rewritten(BlocksWithoutImage, 1, 1)
          /\ Len(result.diagrams) = Len(matches) - Cardinality(BlocksWithoutImage)
          /\ \A d \in 1..Len(result.diagrams) :
                (result.diagrams[d].index + 1) \notin BlocksWithoutImage

\* C8 witness: three blocks, the second fails, the first and the third are converted: two
\* artifacts, and the second block is still in the document between the two references
C8_Witness ==
    /\ pc = "done"
    /\ outcomes = <<"png", "error", "png">>
    /\ Len(result.diagrams) = 2
    /\ result.markdown = <<BlockRef(1), FenceOpen, FenceClose, BlockRef(3)>>

\* a document has a diagram block when an opening fence is followed by a closing fence
HasDiagramBlock(s) ==
    \E p \in 1..Len(s), q \in 1..Len(s) : p < q /\ s[p] = FenceOpen /\ s[q] = FenceClose

\* C9: a document without diagram blocks is returned unchanged with no artifacts, and no
\* converter request is issued.
C9_NoBlocksIsIdentity ==
    (pc # "idle" /\ ~HasDiagramBlock(markdownContent)) =>
        /\ pc = "done"
        /\ result = [markdown |-> markdownContent, diagrams |-> <<>>]
        /\ requests = <<>> /\ outcomes = <<>> /\ inflight = {}

\* C9 witness: a document with an opening fence that is never closed came back unchanged
C9_Witness ==
    /\ pc = "done" /\ ~HasDiagramBlock(markdownContent)
    /\ \E p \in 1..Len(markdownContent) : markdownContent[p] = FenceOpen
    /\ result.markdown = markdownContent

\* C10: the converter requests of one call are issued in document order and one at a
\* time: the request for a block is issued only when the attempts for all blocks before
\* it have settled, so at most one request is in flight.
C10_SequentialInDocumentOrder ==
    /\ Cardinality(inflight) <= 1
    /\ requests = [k \in 1..Len(requests) |-> k - 1]
    /\ Len(requests) <= Len(outcomes) + 1
    /\ pc = "await" => inflight = {Len(outcomes)}
    /\ pc = "done" => inflight = {}

\* C10 witness: the request for the second block is in flight after the attempt for the
\* first block has failed
C10_Witness ==
    /\ pc = "await" /\ outcomes = <<"error">>
    /\ requests = <<0, 1>> /\ inflight = {1}

\* the artifact name of the k-th extracted block (k = 1, 2, ...) of a document published
\* from path
ArtifactName(path, k) ==
    (IF path = None THEN "diagram" ELSE "guide") \o "-diagram-" \o ToString(k) \o ".png"

\* C11: the filename recorded for a block is the document's base name ('diagram' without
\* a path), "-diagram-", the block's 1-based position among all extracted blocks and
\* ".png", whatever the block contains and whatever became of the blocks before it; the
\* returned artifacts keep the names of their blocks (a failed block renumbers nothing).
C11_FilenameFromBaseNameAndOrdinal ==
    /\ \A k \in 1..Len(diagrams) :
          /\ diagrams[k].index = k - 1
          /\ diagrams[k].filename = ArtifactName(markdownPath, k)
    /\ pc = "done" =>
          /\ \A d \in 1..Len(result.diagrams) :
                /\ result.diagrams[d].filename
                      = ArtifactName(markdownPath, result.diagrams[d].index + 1)
                /\ outcomes[result.diagrams[d].index + 1] = "png"
          /\ \A k \in 1..Len(outcomes) :
                outcomes[k] = "png" =>
                   \E d \in 1..Len(result.diagrams) :
                       result.diagrams[d].filename = ArtifactName(markdownPath, k)

\* C11 witness: the first block failed and the second, converted, is still artifact
\* number 2 of guide.md
C11_Witness ==
    /\ pc = "done" /\ markdownPath = "docs/guide.md"
    /\ outcomes = <<"error", "png">>
    /\ Len(result.diagrams) = 1
    /\ result.diagrams[1].filename = "guide-diagram-2.png"

\* the last step was the call of a tool handler / the return of a suspended handler
Called == ncalls' = ncalls + 1
Returned == calls' # calls /\ calls' \subseteq calls

\* the first non-empty of the explicit argument, the project configuration and the
\* environment default, or None
ExpectedSpaceKey(arg) ==
    IF arg # None /\ arg # "" THEN arg
    ELSE IF projectSpaceKey # None /\ projectSpaceKey # "" THEN projectSpaceKey
    ELSE IF envSpaceKey # None /\ envSpaceKey # "" THEN envSpaceKey
    ELSE None

UsesSpaceKey(call) == call.tool \in {"confluence_list_pages", "confluence_create_page"}

\* C12: confluence_create_page and confluence_list_pages work on the first non-empty of
\* the spaceKey argument, the project configuration and the environment default; when all
\* three are empty the call returns the "no space key" error at once, with no request to
\* the Confluence instance and no cache write.
C12_SpaceKeyResolutionOrder ==
    /\ [](\A c \in calls \cup {done.call} :
            (UsesSpaceKey(c) /\ ExpectedSpaceKey(c.spaceKeyArg) # None)
               => c.spaceKey = ExpectedSpaceKey(c.spaceKeyArg))
    /\ []((done.call.tool = "confluence_create_page" /\ ~done.result.isError)
            => remote[done.call.pageId].spaceKey = ExpectedSpaceKey(done.call.spaceKeyArg)
               \/ ~Exists(done.call.pageId))
    /\ [][Called =>
            IF \E c \in calls' \ calls : TRUE
            THEN \A c \in calls' \ calls :
                    UsesSpaceKey(c) => ExpectedSpaceKey(c.spaceKeyArg) # None
            ELSE /\ UsesSpaceKey(done'.call)
                 /\ ExpectedSpaceKey(done'.call.spaceKeyArg) = None
                 /\ done'.result.isError /\ done'.result.text = NoSpaceKey
                 /\ remote' = remote /\ cache' = cache /\ calls' = calls]_vars

\* C12 witness: a page was created without a spaceKey argument in the space of the
\* project configuration, although the environment names another one
C12_Witness ==
    /\ projectSpaceKey = "PROJ" /\ envSpaceKey = "ENV"
    /\ done.call.tool = "confluence_create_page" /\ done.call.spaceKeyArg = None
    /\ ~done.result.isError
    /\ remote[done.call.pageId].spaceKey = "PROJ"

\* the mappings of a source path
MappingsOf(c, path) == {c[n] : n \in {k \in 1..Len(c) : c[k].markdownPath = path}}

Publishes(call) == call.tool \in {"confluence_create_page", "confluence_update_page"}

\* C13: the cache never holds two mappings of one source path; the mapping of a path
\* changes only when a create or update for it succeeds (or a delete removes it), and
\* then it is the mapping of the page that call published.
C13_OneMappingPerSourcePath ==
    /\ [](\A m, n \in 1..Len(cache) :
            cache[m].markdownPath = cache[n].markdownPath => m = n)
    /\ [][(Returned /\ Publishes(done'.call) /\ ~done'.result.isError
           /\ done'.call.markdownPath # None)
          => /\ MappingsOf(cache', done'.call.markdownPath)
                  = {[key |-> done'.call.markdownPath,
                      markdownPath |-> done'.call.markdownPath,
                      pageId |-> done'.call.pageId,
                      spaceKey |-> remote'[done'.call.pageId].spaceKey]}
             /\ \A path \in SourcePaths \ {done'.call.markdownPath} :
                   MappingsOf(cache', path) = MappingsOf(cache, path)]_vars
    /\ [][\A path \in SourcePaths :
            MappingsOf(cache', path) # MappingsOf(cache, path)
               => /\ Returned /\ ~done'.result.isError
                  /\ \/ Publishes(done'.call) /\ done'.call.markdownPath = path
                     \/ done'.call.tool = "confluence_delete_page"]_vars

\* C13 witness: a.md was published to page 100 twice, with versions 1 and 2, and has one
\* mapping
C13_Witness ==
    /\ done.call.tool = "confluence_update_page" /\ ~done.result.isError
    /\ done.call.markdownPath = "a.md" /\ done.call.version = 2
    /\ remote["100"].version = 3
    /\ Len(cache) = 1 /\ cache[1].markdownPath = "a.md" /\ cache[1].pageId = "100"

\* C14: an update whose version is one less than the current version of the page returns
\* an error (the conflict, unless the call failed before the instance saw it) and changes
\* neither the cache nor the page.
C14_StaleVersionLeavesCache ==
    [][(/\ Returned /\ done'.call.tool = "confluence_update_page"
        /\ Exists(done'.call.pageId)
        /\ done'.call.version = remote[done'.call.pageId].version - 1)
       => /\ done'.result.isError
          /\ done'.result.text \in {"Conflict", "Request failed"}
          /\ cache' = cache /\ remote' = remote]_vars

\* C14 witness: a.md is mapped to page 100, now at version 2, and an update of a.md with
\* version 1 came back with the conflict
C14_Witness ==
    /\ done.call.tool = "confluence_update_page" /\ done.result.text = "Conflict"
    /\ done.call.markdownPath = "a.md" /\ done.call.version = 1
    /\ remote[done.call.pageId].version = 2
    /\ Len(cache) = 1 /\ cache[1].markdownPath = "a.md"

\* C15 (as claimed): after a successful delete of page P the page is gone and no cached
\* mapping refers to P.
C15_DeleteLeavesNoMapping ==
    (done.call.tool = "confluence_delete_page" /\ ~done.result.isError)
       => /\ ~Exists(done.call.pageId)
          /\ \A n \in 1..Len(cache) : cache[n].pageId # done.call.pageId

C17_DisconnectLeavesCallRunning ==
    /\ [](\A s \in closed : s \notin DOMAIN transports)
    /\ [](\A c \in calls : ENABLED Resume(c, TRUE))
    /\ [][\A s \in streams :
            s \notin streams' => (s \notin DOMAIN transports' /\ calls' = calls)]_vars
    /\ [][\A c \in calls :
            c \notin calls'
               => \/ \E d \in calls' \ calls : d.tool = c.tool /\ d.session = c.session
                  \/ /\ Returned /\ done'.call.session = c.session
                     /\ done'.call.tool = c.tool /\ ~done'.result.thrown]_vars
    /\ [][(Returned /\ ~done'.delivered /\ Publishes(done'.call) /\ ~done'.result.isError
           /\ done'.call.markdownPath # None)
          => \E n \in 1..Len(cache') :
                /\ cache'[n].markdownPath = done'.call.markdownPath
                /\ cache'[n].pageId = done'.call.pageId]_vars

\* C17 witness: a publish of a.md returned successfully after its session was closed: the
\* session is not in the table, the result was dropped, the mapping is in the cache
C17_Witness ==
    /\ done.call.session \in closed /\ done.call.session \notin DOMAIN transports
    /\ ~done.delivered /\ ~done.result.isError
    /\ done.call.tool = "confluence_create_page" /\ done.call.markdownPath = "a.md"
    /\ Len(cache) = 1 /\ cache[1].pageId = done.call.pageId

InWindow(c) == c \in DOMAIN rateLimitStore /\ now <= rateLimitStore[c].resetTime

\* C19: the limiter is a fixed window.  A request (of any client, admitted or rejected)
\* served while the entry of a client is inside its window leaves that entry's resetTime
\* as the first request of the window set it; the first request of a client that has no
\* entry, or whose entry has now > resetTime, is admitted and leaves the client with a
\* fresh entry of count 1 and resetTime now + RATE_LIMIT_WINDOW.
C19_FixedWindow ==
    /\ [][Served => \A c \in ClientIds :
            InWindow(c) => /\ c \in DOMAIN rateLimitStore'
                           /\ rateLimitStore'[c].resetTime = rateLimitStore[c].resetTime]_vars
    /\ [][\A c \in ClientIds :
            (Served /\ last'.clientId = c /\ ~InWindow(c))
            => /\ last'.status # 429
               /\ c \in DOMAIN rateLimitStore'
               /\ rateLimitStore'[c] = [count |-> 1, resetTime |-> now + RATE_LIMIT_WINDOW]]_vars

\* C19 witness: one millisecond after the first window one client has just been admitted
\* with a fresh entry, next to a client whose second request, served at the very instant
\* of its resetTime, was counted in the window its first request opened
C19_Witness ==
    /\ now = RATE_LIMIT_WINDOW + 1
    /\ last.clientId = "10.0.0.1" /\ last.status = 200
    /\ DOMAIN rateLimitStore = ClientIds
    /\ rateLimitStore["10.0.0.1"] = [count |-> 1, resetTime |-> 2 * RATE_LIMIT_WINDOW + 1]
    /\ rateLimitStore["unknown"] = [count |-> 2, resetTime |-> RATE_LIMIT_WINDOW + 1]

\* C20 (as claimed): a request to an authenticated endpoint whose x-mcp-api-key header is
\* absent or differs from the configured secret is answered with an authentication
\* error; the header is the only channel through which the secret is accepted.
C20_HeaderIsTheOnlyChannel ==
    (Authenticated(last) /\ last.hdr # MCP_API_KEY) => ~AuthAccepted(last)

\* the limiter rejects the next request of client c
Rejects(c) == InWindow(c) /\ rateLimitStore[c].count >= RATE_LIMIT_MAX_REQUESTS

\* C22 (as claimed): GET /health needs no credential and is answered with the static ok
\* status in every state of the server, whatever the session table, the configured
\* secret and the rate-limit table contain.
C22_HealthAlwaysOk ==
    last.route = "GET /health" => last.status = 200 /\ last.text = "ok"

\* C22 (amended): GET /health reads no credential and changes no session; it is answered
\* 200 ok whatever the session table and the configured secret contain, unless the
\* client's rate-limit entry is at the ceiling inside its window, and then it is answered
\* 429.
C22_HealthOkUnlessRateLimited ==
    [][(Served /\ last'.route = "GET /health") =>
          /\ last'.hdr = Unread /\ last'.qry = Unread
          /\ UNCHANGED SessionState
          /\ IF Rejects(last'.clientId)
             THEN last'.status = 429
             ELSE last'.status = 200 /\ last'.text = "ok"]_vars

\* C22 witness: the health route answers ok on a server without a configured secret to
\* the request that takes its client to the ceiling
C22_Witness ==
    /\ last.route = "GET /health" /\ last.status = 200 /\ last.text = "ok"
    /\ MCP_API_KEY = None
    /\ rateLimitStore[last.clientId].count = RATE_LIMIT_MAX_REQUESTS

\* the location named by an absolute path name lies in the workspace directory tree
InWorkspace(p) ==
    startsWith(Normalize(Segments(p), <<>>), Normalize(Segments(workspaceDir), <<>>))

\* one of the locations the call names lies outside the workspace directory tree
NamesOutside ==
    \/ ~InWorkspace(convertFileCall.inputPath)
    \/ ~InWorkspace(convertFileCall.outputPath)
    \/ /\ convertFileCall.template # NoTemplate
       /\ ~InWorkspace(resolveFrom(workspaceDir, convertFileCall.template))

\* C23 (as claimed): a call of convertFile whose input path, output path or template
\* resolves to a location outside the workspace directory tree returns success: false,
\* and it creates no directory, spawns no pandoc process and reads or writes no file
\* outside the workspace.
C23_ConvertFileStaysInWorkspace ==
    (convertFilePc # "idle" /\ NamesOutside) =>
        /\ convertFilePc = "done" => ~conversion.success
        /\ \A e \in effects :
              /\ e.op \notin {"mkdir", "spawn"}
              /\ e.op \in {"read", "write"} => InWorkspace(e.path)

\* C24 (as claimed): the session table and the rate-limit table are the only shared
\* mutable state, so what a tool call of one session works with never comes from a tool
\* call of another session: a call of session s1 never works in the space that only the
\* client of session s2 ever named.
C24_SessionsShareOnlyTables ==
    \A c \in calls \cup {done.call} : c.session = "s1" => c.spaceKey # "TEAM"

\* C25 (as claimed): a session id is in the session table only while its session is
\* open: every id of the table has an open stream (its handshake is complete, it is not
\* closed), so an id whose stream could not be established is not in the table.
C25_TableHoldsOnlyOpenSessions ==
    \A sessionId \in DOMAIN transports : sessionId \in streams

\* C26 (as claimed): in both servers a GET /mcp that passes the limiter and the
\* authenticator is answered with the endpoint event (unless connecting the MCP server
\* to the transport fails), and the session id the event announces is the key under
\* which the transport of this connection is stored.
C26_AnnouncedIdIsTableKey ==
    [][(/\ Served /\ last'.route = "GET /mcp" /\ AuthAccepted(last')
        /\ last'.text # "Error establishing SSE stream")
       => /\ last'.status = 200 /\ last'.text = "event: endpoint"
          /\ last'.session \in DOMAIN transports' \ DOMAIN transports
          /\ IsTransport(Lookup(transports', last'.session))
          /\ Lookup(transports', last'.session) = last'.session]_vars

\* C27: in one call the converter is asked exactly once for each extracted block: no
\* block is requested twice, whatever its outcome, each request settles once, and when
\* the call is done every block has been requested; blocks are told apart by position,
\* so two blocks get distinct filenames even when their source is the same.
C27_OneAttemptPerBlock ==
    /\ \A j, k \in 1..Len(requests) : requests[j] = requests[k] => j = k
    /\ \A k \in 1..Len(requests) : requests[k] \in 0..(Len(matches) - 1)
    /\ Len(outcomes) = Len(diagrams) /\ Len(outcomes) <= Len(requests)
    /\ pc = "done" => (Len(requests) = Len(matches) /\ Len(outcomes) = Len(matches))
    /\ \A j, k \in 1..Len(diagrams) :
          j # k => diagrams[j].filename # diagrams[k].filename

\* C27 witness: two blocks with the same source; the attempt for the first failed and
\* was not repeated, the second was converted on its own
C27_Witness ==
    /\ pc = "done" /\ outcomes = <<"error", "png">> /\ requests = <<0, 1>>
    /\ diagrams[1].originalCode = <<"x">> /\ diagrams[2].originalCode = <<"x">>
    /\ BlockText(1) = BlockText(2)
    /\ Len(result.diagrams) = 1 /\ result.diagrams[1].index = 1

\* the blocks (k = 1, 2, ...) that have an artifact in the returned list
BlocksWithArtifact == {result.diagrams[d].index + 1 : d \in 1..Len(result.diagrams)}

\* C28: the rewritten document is the original one with the k-th extracted block
\* replaced by the reference to artifact k exactly when an artifact with index k is
\* returned, every other block and all text outside the blocks as they were; the
\* filenames the references name are those of the returned artifacts.
C28_RewriteFollowsExtraction ==
    (pc = "done" /\ Len(matches) > 0) =>
        /\ BlocksWithArtifact \subseteq 1..Len(matches)
        /\ result.markdown = Rewritten((1..Len(matches)) \ BlocksWithArtifact, 1, 1)
        /\ {result.diagrams[d].filename : d \in 1..Len(result.diagrams)}
              = {ArtifactName(markdownPath, k) : k \in BlocksWithArtifact}
        /\ Len(result.diagrams) = Cardinality(BlocksWithArtifact)

\* C28 witness: text, a block that was converted, text, and a block with the same source
\* that was answered with an empty body: the first is a reference, the second verbatim
C28_Witness ==
    /\ pc = "done" /\ outcomes = <<"png", "empty">>
    /\ markdownContent = <<"x", FenceOpen, FenceClose, "x", FenceOpen, FenceClose>>
    /\ result.markdown = <<"x", BlockRef(1), "x", FenceOpen, FenceClose>>
    /\ BlocksWithArtifact = {1}

IsUpdate(call) == call.tool = "confluence_update_page"

\* C29: a call of confluence_update_page makes one update request and nothing else at the
\* Confluence instance: it waits for the conversion, then for the update, then returns,
\* whether the update succeeded or not; the update carries the caller's version (it
\* succeeds only when that is the page's current version and makes the page version + 1),
\* and a failed update leaves the page and the cache as they were.
C29_OneUpdateRequestWithCallersVersion ==
    /\ [](\A c \in calls : IsUpdate(c) => c.stage \in {"convert", "updatePage"})
    /\ [][\A c \in calls :
            (IsUpdate(c) /\ c \notin calls')
               => IF c.stage = "convert" /\ ~Returned
                  THEN /\ calls' \ calls = {[c EXCEPT !.stage = "updatePage"]}
                       /\ remote' = remote
                  ELSE /\ Returned /\ IsUpdate(done'.call)
                       /\ done'.call.version = c.version /\ done'.call.pageId = c.pageId
                       /\ calls' = calls \ {c}]_vars
    /\ [][(Returned /\ IsUpdate(done'.call))
          => IF done'.result.isError
             THEN remote' = remote /\ cache' = cache
             ELSE /\ remote[done'.call.pageId].version = done'.call.version
                  /\ remote'[done'.call.pageId].version = done'.call.version + 1
                  /\ \A p \in PageIds \ {done'.call.pageId} : remote'[p] = remote[p]]_vars

\* C29 witness: page 100 is at version 2 and an update that named version 1 has come
\* back with the conflict; the page is still at version 2
C29_Witness ==
    /\ IsUpdate(done.call) /\ done.call.version = 1 /\ done.call.pageId = "100"
    /\ done.result.isError /\ done.result.text = "Conflict"
    /\ remote["100"].version = 2
    /\ \A c \in calls : ~IsUpdate(c)

C31_RequestsTouchOnlyOwnEntry ==
    /\ [][(Served /\ last'.status = 429)
            => /\ last'.clientId \in DOMAIN rateLimitStore
               /\ last'.clientId \in DOMAIN rateLimitStore'
               /\ rateLimitStore'[last'.clientId] = rateLimitStore[last'.clientId]]_vars
    /\ [][Served => \A b \in ClientIds \ {last'.clientId} :
            InWindow(b) => /\ b \in DOMAIN rateLimitStore'
                           /\ rateLimitStore'[b] = rateLimitStore[b]]_vars

\* C31 witness: at the instant the first window ends a client at the ceiling has just been
\* rejected, next to the entry of another client that is still inside its window
C31_Witness ==
    /\ last.status = 429 /\ last.clientId = "10.0.0.1"
    /\ now = RATE_LIMIT_WINDOW
    /\ DOMAIN rateLimitStore = ClientIds
    /\ rateLimitStore["10.0.0.1"] = [count |-> RATE_LIMIT_MAX_REQUESTS,
                                     resetTime |-> RATE_LIMIT_WINDOW]
    /\ rateLimitStore["unknown"] = [count |-> 1, resetTime |-> RATE_LIMIT_WINDOW]

\* C32 (as claimed): the retry hint of a 429 is sufficient.  When a request served at time
\* t was rejected with retryAfter r and the next request served is of the same client, at
\* a time of at least t + r seconds, that request is not rejected.
C32_RetryHintIsSufficient ==
    [][(/\ Served
        /\ last.status = 429
        /\ last'.clientId = last.clientId
        /\ now >= last.time + 1000 * last.retryAfter)
       => last'.status # 429]_vars

\* the requests of client c the limiter passed on at the instants from a to b
AdmittedBetween(c, a, b) ==
    LET RECURSIVE sum(_)
        sum(T) == IF T = {} THEN 0
                  ELSE LET t == CHOOSE u \in T : TRUE IN admittedAt[c][t] + sum(T \ {t})
    IN  sum({t \in TimePoints : a <= t /\ t <= b})

\* C33: for every client and every interval no longer than the window, the limiter passes
\* on at most twice the ceiling (200) of the client's requests served in the interval.
C33_BurstWithinTwiceCeiling ==
    \A c \in ClientIds : \A a, b \in TimePoints :
        (a <= b /\ b - a <= RATE_LIMIT_WINDOW)
        => AdmittedBetween(c, a, b) <= 2 * RATE_LIMIT_MAX_REQUESTS

\* C33 witness: a client rejected at the ceiling of its second window, one millisecond
\* after 99 of its requests were passed on at the last instant of its first window: 199
\* requests within two milliseconds
C33_Witness ==
    /\ last.status = 429 /\ last.clientId = "10.0.0.1"
    /\ now = RATE_LIMIT_WINDOW + 1
    /\ admittedAt["10.0.0.1"][RATE_LIMIT_WINDOW] = RATE_LIMIT_MAX_REQUESTS - 1
    /\ admittedAt["10.0.0.1"][RATE_LIMIT_WINDOW + 1] = RATE_LIMIT_MAX_REQUESTS
    /\ AdmittedBetween("10.0.0.1", RATE_LIMIT_WINDOW, RATE_LIMIT_WINDOW + 1)
          = 2 * RATE_LIMIT_MAX_REQUESTS - 1

\* C34: a create, update or delete whose remote call fails, and a create or update called
\* without a markdownPath, leave every cached mapping as it was; the cache changes only
\* when a create, update or delete returns successfully.
C34_CacheWrittenOnlyOnSuccessWithPath ==
    /\ [][(/\ Returned
           /\ \/ done'.result.isError
              \/ Publishes(done'.call) /\ ~Truthy(done'.call.markdownPath))
          => cache' = cache]_vars
    /\ [][cache' # cache
          => /\ Returned /\ ~done'.result.isError
             /\ done'.call.tool \in {"confluence_create_page", "confluence_update_page",
                                     "confluence_delete_page"}]_vars

\* C34 witness: with a.md cached for page 100, an update of that page called without a
\* markdownPath has succeeded (the page is at version 3) and the cache holds the one
\* mapping as before
C34_Witness ==
    /\ done.call.tool = "confluence_update_page" /\ ~done.result.isError
    /\ done.call.markdownPath = None
    /\ remote["100"].version = 3
    /\ Len(cache) = 1 /\ cache[1].markdownPath = "a.md" /\ cache[1].pageId = "100"

\* C35 (as claimed): a successful confluence_delete_page removes from the cache only
\* mappings of the deleted page; every mapping that points to another page, the mapping of
\* the markdownPath given to the call included, is still in the cache afterwards.
C35_DeleteRemovesOnlyMappingsOfThePage ==
    [][(Returned /\ done'.call.tool = "confluence_delete_page" /\ ~done'.result.isError)
       => \A n \in 1..Len(cache) :
             cache[n].pageId # done'.call.pageId
                => \E m \in 1..Len(cache') : cache'[m] = cache[n]]_vars

C37_FailedSetupChangesNothing ==
    /\ [][projectSpaceKey' # projectSpaceKey
            => /\ Returned /\ ~done'.result.isError
               /\ done'.call.tool = "confluence_setup_project"]_vars
    /\ []((/\ \A c \in calls : c.tool # "confluence_setup_project"
           /\ projectSpaceKey # "TEAM")
          => confluenceConfig = EnvCredentials)

\* C38 (as claimed): whatever the pandoc subprocess does (exit code 0, a non-zero exit
\* code, failure to start), a call of PandocService.convertFile does not bring the server
\* down: it is suspended at one of its awaits or has resolved with a ConversionResult,
\* which carries an error message exactly when success is false.
C38_ConvertFileResolvesForEveryOutcome ==
    /\ convertFilePc \in {"idle", "access", "mkdir", "pandoc", "readFile", "done"}
    /\ convertFilePc = "done" => (conversion.success <=> conversion.error = "")

\* C39 (as claimed): concurrent POST /convert/mermaid2png requests do not interfere.  A
\* request answered 200 gets the PNG rendered from its own Mermaid source, and a request
\* is answered 500 only when its own mmdc run failed: no request finds in its temporary
\* output file what another request wrote, or finds it deleted by another request.
C39_ConcurrentConversionsAreIsolated ==
    \A r \in MermaidRequests :
       LET c == conversions[r] IN
       c.pc = "done" =>
          /\ c.status = 200 => c.pngBuffer = Png(c.mermaidCode)
          /\ c.status = 500 => c.exitCode # 0
====
